---- MODULE Spec2Model ----
(***************************************************************************)
(* Model of the movie catalog backend: the relational store (movies,       *)
(* languages, sync_logs), the TMDB sync pipeline, the movie CRUD service   *)
(* and the paginated list query.  Every request runs in its own task; a    *)
(* task interleaves with the others between two store or network round     *)
(* trips, so each round trip is one atomic step of the task.               *)
(***************************************************************************)
EXTENDS Integers, Sequences, FiniteSets, TLC

(***************************************************************************)
(* Bounds of the model                                                     *)
(***************************************************************************)
MaxMovieId == 2  \* ids the movies sequence hands out in one behaviour
MaxItems == 2    \* items in one fetched TMDB page
MaxTmdbId == 2   \* external ids are 1..MaxTmdbId
MaxRuns == 1     \* sync runs started in one behaviour
MaxListRows == 3 \* movies in the store of the list query
IntBits == 16    \* width of Go's int (64 in the build)
MaxChartRows == 3 \* movies in the store of the monthly chart
MaxYearRows == 12 \* movies in the store of the by-year chart
MaxUploads == 2  \* presigned-upload requests in one behaviour
MaxRaceRuns == 2 \* sync runs started in one behaviour of the sync race
MaxImageMovies == 1 \* movies created in one behaviour of the image requests
MaxGenreId == 2  \* genre ids of TMDB: 28 and 1..MaxGenreId-1

(***************************************************************************)
(* Program constants                                                       *)
(***************************************************************************)
MinPages == 1
MaxPages == 10
DefaultLimit == 20
MaxLimit == 100
StatusOK == 200
StatusCreated == 201
StatusBadRequest == 400
StatusNotFound == 404
StatusInternalServerError == 500

Procs == {1, 2}        \* request tasks that may run at the same time
Titles == {"A", "B"}
LangCodes == {"en"}

Min(a, b) == IF a < b THEN a ELSE b

Max(a, b) == IF a > b THEN a ELSE b

ZeroTime == 0          \* the zero time.Time
NoError == ""          \* a nil error

\* A models.Movie.  The title stands for every column a write overwrites.
Movie(id, tmdbID, title, createdAt) ==
    [id |-> id, tmdb_id |-> tmdbID, title |-> title, created_at |-> createdAt,
     poster_path |-> <<>>, backdrop_path |-> <<>>]

Nil == Movie(0, 0, "", ZeroTime)     \* a nil *models.Movie

VARIABLES
    movies,        \* table movies: set of rows
    languages,     \* table languages: set of rows
    genres,        \* table genres: set of rows
    movieGenres,   \* table movie_genres: set of <<movie id, genre TMDB id>>
    syncLogs,      \* table sync_logs: sequence of rows in insertion order
    nextMovieId,   \* sequence behind movies.id
    now,           \* wall clock
    runs,          \* number of sync runs started so far
    proc,          \* per task: program counter, locals and result
    listIn,        \* list query: arguments received by the service
    listOut,       \* list query: arguments applied and result
    chartIn,       \* chart query: arguments received by the handler
    chartOut,      \* chart query: response
    httpIn,        \* movie request: handler, path parameter and body
    httpOut,       \* movie request: response
    uploads,       \* presigned-upload requests answered so far
    repoCall,      \* repository call: arguments and result
    logOut,        \* last-log request: response
    objects,       \* object store: keys of the objects of the bucket
    imageLog       \* movie request: removals of image objects, with outcome

vars ==
    <<movies, languages, genres, movieGenres, syncLogs, nextMovieId, now, runs, proc,
      listIn, listOut,
      chartIn, chartOut, httpIn, httpOut, uploads,
      repoCall, logOut, objects, imageLog>>

genreVars == <<genres, movieGenres>>
storeVars == <<movies, languages, genres, movieGenres, syncLogs, nextMovieId, now>>
listVars == <<listIn, listOut>>
chartVars == <<chartIn, chartOut>>
httpVars == <<httpIn, httpOut>>
uploadVars == <<uploads>>
repoVars == <<repoCall>>
logVars == <<logOut>>
imageVars == <<objects, imageLog>>
queryVars == <<listIn, listOut, chartIn, chartOut, httpIn, httpOut, uploads,
              repoCall, logOut, objects, imageLog>>

(***************************************************************************)
(* Store: table movies                                                     *)
(***************************************************************************)
\* A movies table without the unique index on tmdb_id.
NoTMDBIDIndex(rows, m) == FALSE

\* uniqueIndex on movies.tmdb_id: the write of row m is rejected when another
\* row already carries m's external id (0 is a value like any other).
TMDBIDConflict(rows, m) ==
    \E r \in rows : r.tmdb_id = m.tmdb_id /\ r.id # m.id

\* movieRepository.FindByTMDBID: the row with that external id, or nil.
FindByTMDBID(rows, tmdbID) ==
    IF \E r \in rows : r.tmdb_id = tmdbID
    THEN CHOOSE r \in rows : r.tmdb_id = tmdbID
    ELSE Nil

\* movieRepository.FindByID: the row with that id; nil stands for the
\* "movie not found" error.
FindByID(rows, id) ==
    IF \E r \in rows : r.id = id
    THEN CHOOSE r \in rows : r.id = id
    ELSE Nil

\* movieRepository.Create: INSERT with a fresh id; CreatedAt is filled with
\* the clock when the caller left it zero.
Create(rows, m, nid, t) ==
    IF TMDBIDConflict(rows, [m EXCEPT !.id = nid])
    THEN [ok |-> FALSE, rows |-> rows]
    ELSE [ok |-> TRUE,
          rows |-> rows \cup {[m EXCEPT !.id = nid,
                                 !.created_at = IF m.created_at = ZeroTime
                                                THEN t ELSE m.created_at]}]

\* movieRepository.Update: gorm Save writes every column of the row with
\* m's id, and inserts the row when the UPDATE matched none.
Update(rows, m) ==
    IF TMDBIDConflict(rows, m)
    THEN [ok |-> FALSE, rows |-> rows]
    ELSE [ok |-> TRUE, rows |-> {r \in rows : r.id # m.id} \cup {m}]

\* The rows of movie_genres a Create or a Save of a movie whose Genres field
\* holds gs leaves: gorm inserts the link of every genre of the field and
\* skips those already there; it deletes no link.
SaveGenres(links, id, gs) == links \cup {<<id, g>> : g \in gs}

\* movieRepository.Delete: DELETE by primary key; no row is no error.
Delete(rows, id) == {r \in rows : r.id # id}

(***************************************************************************)
(* Store: table languages                                                  *)
(***************************************************************************)
\* movieService.getLanguageName: the fixed code -> name table, the code
\* itself for a code the table does not know.
getLanguageName(langCode) ==
    IF langCode = "en" THEN "English" ELSE langCode

\* The SELECT of languageRepository.FindOrCreate: id of the row with that
\* code, 0 when there is none.
FindLanguage(rows, code) ==
    IF \E l \in rows : l.code = code
    THEN (CHOOSE l \in rows : l.code = code).id
    ELSE 0

\* languageRepository.FindOrCreate with gorm's Assign: the name of a row
\* that exists is overwritten with the one passed in.
FindOrAssignLanguage(rows, code, name) ==
    IF \E l \in rows : l.code = code
    THEN LET old == CHOOSE l \in rows : l.code = code
             new == [old EXCEPT !.name = name]
         IN  [row |-> new, rows |-> (rows \ {old}) \cup {new}]
    ELSE LET new == [id |-> Cardinality(rows) + 1, code |-> code, name |-> name]
         IN  [row |-> new, rows |-> rows \cup {new}]

\* languageRepository.FindOrCreate, gorm's FirstOrCreate: the row with that
\* code when there is one, else a new row with the code and the name.
FindOrCreateLanguage(rows, code, name) ==
    IF \E l \in rows : l.code = code
    THEN [row |-> CHOOSE l \in rows : l.code = code, rows |-> rows]
    ELSE LET new == [id |-> Cardinality(rows) + 1, code |-> code, name |-> name]
         IN  [row |-> new, rows |-> rows \cup {new}]

(***************************************************************************)
(* Store: table genres.  A row is told by its TMDB id; the links of        *)
(* movie_genres name it by that id.                                        *)
(***************************************************************************)
\* movieService.getGenreName: the fixed id -> name table (28 is "Action"),
\* "Genre <id>" for an id the table does not know.
getGenreName(genreID) ==
    IF genreID = 28 THEN <<"Action">> ELSE <<"Genre", genreID>>

\* genreRepository.FindOrCreate, gorm's FirstOrCreate: the row with that TMDB
\* id when there is one, else a new row with the id and the name.
FindOrCreateGenre(rows, tmdbID, name) ==
    IF \E g \in rows : g.tmdb_id = tmdbID
    THEN [row |-> CHOOSE g \in rows : g.tmdb_id = tmdbID, rows |-> rows]
    ELSE LET new == [tmdb_id |-> tmdbID, name |-> name]
         IN  [row |-> new, rows |-> rows \cup {new}]

\* The rows of genres after FindOrCreate of every id of ids with the name
\* getGenreName gives it.
FindOrCreateGenres(rows, ids) ==
    rows \cup {[tmdb_id |-> g, name |-> getGenreName(g)] :
                  g \in {i \in ids : \A r \in rows : r.tmdb_id # i}}

(***************************************************************************)
(* Store: table sync_logs                                                  *)
(***************************************************************************)
\* movieRepository.CreateSyncLog: INSERT of one row; the id is its position.
\* The field run is history: the run that wrote the row.
CreateSyncLog(rows, log, run) ==
    Append(rows, [id |-> Len(rows) + 1, run |-> run, log |-> log])

(***************************************************************************)
(* Task state                                                              *)
(***************************************************************************)
NoItem == [id |-> 0, title |-> "", original_language |-> "", genre_ids |-> {}]

NoLog == [sync_type |-> "", status |-> "", movies_added |-> 0,
          movies_updated |-> 0, error_message |-> <<>>, synced_at |-> ZeroTime]

\* A task that runs no request.  The fields from run on are history of the
\* sync run the task executes; the code does not read them.
Idle ==
    [pc |-> "idle",
     pages |-> 0, page |-> 0, left |-> 0, item |-> NoItem, movie |-> Nil,
     genres |-> {},
     moviesAdded |-> 0, moviesUpdated |-> 0, syncLog |-> NoLog,
     err |-> NoError, id |-> 0,
     run |-> 0, req |-> 0, fetched |-> <<>>, failedPage |-> 0,
     received |-> 0, skipped |-> 0, inserted |-> 0, replaced |-> 0,
     genreErrors |-> 0, rejected |-> 0]

\* A request is taken by the first task that is free.
Free(p) ==
    /\ proc[p].pc = "idle"
    /\ \A q \in Procs : q < p => proc[q].pc # "idle"

FetchErrors == {"TMDB API returned status 500"}

StoreError == "store error"

\* The list query before any call.
NoQuery ==
    [called |-> FALSE, page |-> 0, limit |-> 0, search |-> <<>>, sortBy |-> "",
     order |-> "", startDate |-> <<>>, endDate |-> <<>>]

NoResult ==
    [page |-> 0, limit |-> 0, sortBy |-> "", order |-> "", movies |-> <<>>, total |-> 0,
     status |-> 0,
     meta |-> [page |-> 0, limit |-> 0, total |-> 0, total_pages |-> 0,
               has_next |-> FALSE, has_previous |-> FALSE]]

\* A query or path parameter: absent, the decimal text of an integer, or
\* other text.
Absent == [kind |-> "absent", val |-> 0]

Number(n) == [kind |-> "int", val |-> n]

NotANumber == [kind |-> "text", val |-> 0]

\* The chart queries before any call.
NoChart ==
    [called |-> FALSE, chart |-> "", year |-> Absent, startDate |-> <<>>, endDate |-> <<>>]

NoChartData == [status |-> 0, data |-> <<>>]

\* The movie handlers before any request.
NoRequest == [called |-> FALSE, handler |-> "", id |-> Absent,
              body |-> [kind |-> "absent", movie |-> Nil]]

NoResponse == [status |-> 0, err |-> NoError]

\* No call of a repository's FindOrCreate, and the nil row it returns with
\* an error.
NoRow == [key |-> "", name |-> ""]

\* No last-log request, and its response.
NoLogRow == [id |-> 0, run |-> 0, log |-> NoLog]

NoLogOut == [called |-> FALSE, status |-> 0, row |-> NoLogRow]

\* movieRepository.GetLastSyncLog: ORDER BY synced_at DESC, then First's
\* ORDER BY id, LIMIT 1; nil when the table is empty.
GetLastSyncLogRow(rows) ==
    IF rows = <<>> THEN NoLogRow
    ELSE LET first == CHOOSE i \in DOMAIN rows : \A j \in DOMAIN rows :
                          \/ rows[i].log.synced_at > rows[j].log.synced_at
                          \/ rows[i].log.synced_at = rows[j].log.synced_at /\ i <= j
         IN  rows[first]

NoCall == [called |-> FALSE, repo |-> "", key |-> "", name |-> "", row |-> NoRow,
           err |-> NoError]

Init ==
    /\ movies = {}
    /\ languages = {}
    /\ genres = {}
    /\ movieGenres = {}
    /\ syncLogs = <<>>
    /\ nextMovieId = 1
    /\ now = 1
    /\ runs = 0
    /\ proc = [p \in Procs |-> Idle]
    /\ listIn = NoQuery
    /\ listOut = NoResult
    /\ chartIn = NoChart
    /\ chartOut = NoChartData
    /\ httpIn = NoRequest
    /\ httpOut = NoResponse
    /\ uploads = <<>>
    /\ repoCall = NoCall
    /\ logOut = NoLogOut
    /\ objects = {}
    /\ imageLog = {}

(***************************************************************************)
(* Sync pipeline: movieService.SyncMoviesFromTMDB                          *)
(***************************************************************************)
\* A clamp that forgets the upper limit.
ClampPagesNoMax(n) == IF n < MinPages THEN MinPages ELSE n

\* The clamp of the requested page count.
ClampPages(n) ==
    IF n < MinPages THEN MinPages
    ELSE IF n > MaxPages THEN MaxPages ELSE n

\* The struct built for an item, before the lookup of the stored row.
ItemMovie(it) == Movie(0, it.id, it.title, ZeroTime)

\* The update struct without the copy of the creation time.
UpdatedMovieZeroCreatedAt(it, existing) ==
    [ItemMovie(it) EXCEPT !.id = existing.id]

\* The struct handed to repo.Update for an item whose row exists: id and
\* creation time are those of the row found.
UpdatedMovie(it, existing) ==
    [ItemMovie(it) EXCEPT !.id = existing.id,
                          !.created_at = existing.created_at]

\* A fetch failure that records no message.
NoFetchMessage(page, e) == <<>>

\* The message recorded when the fetch of a page fails.
FetchFailedMessage(page, e) == <<"failed to fetch page ", page, ": ", e>>

\* Loop exit that leaves the counts out of the record.
CompletedWithoutCounts(q) ==
    [q EXCEPT !.pc = "log", !.syncLog = [@ EXCEPT !.status = "success"]]

\* Loop exit: the record turns to success and carries the counts.
Completed(q) ==
    [q EXCEPT !.pc = "log",
              !.syncLog = [@ EXCEPT !.status = "success",
                                    !.movies_added = q.moviesAdded,
                                    !.movies_updated = q.moviesUpdated]]

\* page++ of the outer loop and its test.
NextPage(q) ==
    IF q.page + 1 <= q.pages
    THEN [q EXCEPT !.page = @ + 1, !.pc = "fetch"]
    ELSE Completed([q EXCEPT !.page = @ + 1])

\* End of one iteration of the item loop (also the target of continue).
NextItem(q) ==
    LET r == [q EXCEPT !.item = NoItem, !.movie = Nil, !.genres = {}]
    IN IF q.left > 1
       THEN [r EXCEPT !.left = @ - 1, !.pc = "lang"]
       ELSE NextPage([r EXCEPT !.left = 0])

\* A failure of the item that leaves the item loop (break).
SkipRestOfPage(q) ==
    NextPage([q EXCEPT !.skipped = @ + 1, !.left = 0, !.item = NoItem,
                       !.movie = Nil, !.genres = {}])

\* continue after a failure of the item.
SkipItem(q) == NextItem([q EXCEPT !.skipped = @ + 1])

\* History of a write on movies: rows the run inserted, rows it replaced.
Written(q, before, after, ok) ==
    [q EXCEPT !.inserted = @ + Cardinality(after) - Cardinality(before),
              !.replaced = IF ok /\ Cardinality(after) = Cardinality(before)
                           THEN @ + 1 ELSE @]

\* Entry: the record starts as failed and carries the time of the start,
\* the page count is clamped.  Reading the clock takes time.
SyncStart(p, n, cap) ==
    /\ Free(p)
    /\ runs < cap
    /\ runs' = runs + 1
    /\ proc' = [proc EXCEPT ![p] =
           [Idle EXCEPT !.pc = "fetch",
                        !.syncLog = [NoLog EXCEPT !.sync_type = "manual",
                                                  !.status = "failed",
                                                  !.synced_at = now],
                        !.pages = ClampPages(n),
                        !.page = 1,
                        !.run = runs + 1,
                        !.req = n]]
    /\ now' = now + 1
    /\ UNCHANGED <<movies, languages, genreVars, syncLogs, nextMovieId, queryVars>>

\* A fetch failure after which the loop goes on with the next page.
SyncFetchFailContinue(p) ==
    /\ proc[p].pc = "fetch"
    /\ \E e \in FetchErrors :
         proc' = [proc EXCEPT ![p] =
             NextPage([@ EXCEPT !.err = e,
                                !.syncLog = [@ EXCEPT !.error_message =
                                       FetchFailedMessage(proc[p].page, e)],
                                !.fetched = Append(@, proc[p].page),
                                !.failedPage = proc[p].page])]
    /\ UNCHANGED <<storeVars, runs, queryVars>>

\* fetchPopularMoviesFromTMDB for the current page fails: the message is
\* recorded and the run goes on to write its record.
SyncFetchFail(p) ==
    /\ proc[p].pc = "fetch"
    /\ \E e \in FetchErrors :
         proc' = [proc EXCEPT ![p] =
             [@ EXCEPT !.pc = "log",
                       !.err = e,
                       !.syncLog = [@ EXCEPT !.error_message =
                                       FetchFailedMessage(proc[p].page, e)],
                       !.fetched = Append(@, proc[p].page),
                       !.failedPage = proc[p].page]]
    /\ UNCHANGED <<storeVars, runs, queryVars>>

\* fetchPopularMoviesFromTMDB returns the page's items; the range loop
\* meets them one per iteration.
SyncFetchOK(p, lens) ==
    /\ proc[p].pc = "fetch"
    /\ \E len \in lens :
         LET q == [proc[p] EXCEPT !.fetched = Append(@, proc[p].page),
                                  !.received = @ + len,
                                  !.left = len]
         IN proc' = [proc EXCEPT ![p] =
                IF len = 0 THEN NextPage(q) ELSE [q EXCEPT !.pc = "lang"]]
    /\ UNCHANGED <<storeVars, runs, queryVars>>

\* langRepo.FindOrCreate, its SELECT: the next item of the page is taken and
\* its language looked up by code.  A store error skips the item.
SyncLangFind(p, items) ==
    /\ proc[p].pc = "lang"
    /\ \E it \in items, fail \in BOOLEAN :
         LET q == [proc[p] EXCEPT !.item = it]
         IN proc' = [proc EXCEPT ![p] =
                IF fail THEN SkipItem(q)
                ELSE IF FindLanguage(languages, it.original_language) # 0
                     THEN [q EXCEPT !.pc = "genres"]
                     ELSE [q EXCEPT !.pc = "lang_create"]]
    /\ UNCHANGED <<storeVars, runs, queryVars>>

\* langRepo.FindOrCreate, its INSERT when the SELECT found no row.  The
\* unique index on languages.code rejects a code inserted in between.
SyncLangCreate(p) ==
    /\ proc[p].pc = "lang_create"
    /\ LET q == proc[p]
           code == q.item.original_language
       IN \E fail \in BOOLEAN :
            IF fail \/ FindLanguage(languages, code) # 0
            THEN /\ proc' = [proc EXCEPT ![p] = SkipItem(q)]
                 /\ UNCHANGED languages
            ELSE /\ languages' = languages \cup
                        {[id |-> Cardinality(languages) + 1, code |-> code,
                          name |-> getLanguageName(code)]}
                 /\ proc' = [proc EXCEPT ![p] = [q EXCEPT !.pc = "genres"]]
    /\ UNCHANGED <<genreVars, movies, syncLogs, nextMovieId, now, runs, queryVars>>

\* The task after a genre loop that skipped the item on a failure.
AfterGenresSkipItem(q, found) ==
    IF found = q.item.genre_ids
    THEN [q EXCEPT !.pc = "find", !.genres = found]
    ELSE SkipItem(q)

\* The task after the genre loop: movie.Genres holds the genres whose
\* FindOrCreate succeeded, and the item goes on to the lookup of its row.
AfterGenres(q, found) ==
    [q EXCEPT !.pc = "find", !.genres = found,
              !.genreErrors = @ + Cardinality(q.item.genre_ids \ found)]

\* The genre loop: genreRepo.FindOrCreate runs for every genre id of the
\* item; one that fails is logged and left out of movie.Genres, the others
\* have their row in genres.
SyncGenres(p) ==
    /\ proc[p].pc = "genres"
    /\ \E found \in SUBSET proc[p].item.genre_ids :
         /\ genres' = FindOrCreateGenres(genres, found)
         /\ proc' = [proc EXCEPT ![p] = AfterGenres(proc[p], found)]
    /\ UNCHANGED <<movies, languages, movieGenres, syncLogs, nextMovieId, now, runs,
                   queryVars>>

\* repo.FindByTMDBID for the item's external id, and the struct the write
\* will carry: the item's own when no row exists, else with the row's id
\* and creation time.
SyncFind(p) ==
    /\ proc[p].pc = "find"
    /\ LET q == proc[p]
           existing == FindByTMDBID(movies, q.item.id)
       IN \E fail \in BOOLEAN :
            proc' = [proc EXCEPT ![p] =
                IF fail THEN SkipItem(q)
                ELSE [q EXCEPT !.pc = "write",
                               !.movie = IF existing = Nil
                                         THEN ItemMovie(q.item)
                                         ELSE UpdatedMovie(q.item, existing)]]
    /\ UNCHANGED <<storeVars, runs, queryVars>>

\* A failed repo.Create that was counted as an insert all the same.
CreateFailedCounted(q, conflict) ==
    NextItem([q EXCEPT !.moviesAdded = @ + 1,
                       !.rejected = IF conflict THEN @ + 1 ELSE @])

\* The task after a repo.Create that failed: the error is logged and the
\* loop continues with the next item; moviesAdded stays.  rejected counts
\* the inserts the unique index turned down.
CreateFailed(q, conflict) ==
    SkipItem([q EXCEPT !.rejected = IF conflict THEN @ + 1 ELSE @])

\* existing == nil: repo.Create, then moviesAdded++.  The movies sequence
\* is capped: beyond MaxMovieId the insert only fails.
SyncCreate(p) ==
    /\ proc[p].pc = "write"
    /\ proc[p].movie.id = 0
    /\ LET q == proc[p]
           res == Create(movies, q.movie, nextMovieId, now)
       IN \E fail \in BOOLEAN :
            IF fail \/ ~res.ok \/ nextMovieId > MaxMovieId
            THEN /\ proc' = [proc EXCEPT ![p] = CreateFailed(q, ~res.ok)]
                 /\ UNCHANGED <<movies, movieGenres, nextMovieId, now>>
            ELSE /\ movies' = res.rows
                 /\ movieGenres' = SaveGenres(movieGenres, nextMovieId, q.genres)
                 /\ nextMovieId' = nextMovieId + 1
                 /\ now' = now + 1
                 /\ proc' = [proc EXCEPT ![p] =
                        NextItem([Written(q, movies, res.rows, TRUE)
                                    EXCEPT !.moviesAdded = @ + 1])]
    /\ UNCHANGED <<genres, languages, syncLogs, runs, queryVars>>

\* existing != nil: repo.Update, then moviesUpdated++.
SyncUpdate(p) ==
    /\ proc[p].pc = "write"
    /\ proc[p].movie.id # 0
    /\ LET q == proc[p]
           res == Update(movies, q.movie)
       IN \E fail \in BOOLEAN :
            IF fail \/ ~res.ok
            THEN /\ proc' = [proc EXCEPT ![p] = SkipItem(q)]
                 /\ UNCHANGED <<movies, movieGenres>>
            ELSE /\ movies' = res.rows
                 /\ movieGenres' = SaveGenres(movieGenres, q.movie.id, q.genres)
                 /\ proc' = [proc EXCEPT ![p] =
                        NextItem([Written(q, movies, res.rows, TRUE)
                                    EXCEPT !.moviesUpdated = @ + 1])]
    /\ UNCHANGED <<genres, languages, syncLogs, nextMovieId, now, runs, queryVars>>

\* repo.CreateSyncLog with the run's record; its error is dropped, and the
\* run returns the record with the fetch error, if any.
SyncWriteLog(p) ==
    /\ proc[p].pc = "log"
    /\ \E fail \in BOOLEAN :
         IF fail
         THEN UNCHANGED syncLogs
         ELSE syncLogs' = CreateSyncLog(syncLogs, proc[p].syncLog, proc[p].run)
    /\ proc' = [proc EXCEPT ![p] = [@ EXCEPT !.pc = "sync_done"]]
    /\ UNCHANGED <<genreVars, movies, languages, nextMovieId, now, runs, queryVars>>

\* The request is answered and the task is free again.
Return(p) ==
    /\ proc[p].pc \in {"sync_done", "done"}
    /\ proc' = [proc EXCEPT ![p] = Idle]
    /\ UNCHANGED <<storeVars, runs, queryVars>>

(***************************************************************************)
(* Movie CRUD: movieService.CreateMovie, UpdateMovie, DeleteMovie          *)
(***************************************************************************)
Finished(e) == [Idle EXCEPT !.pc = "done", !.err = e]

(***************************************************************************)
(* Object store and image cleanup.  Paths and keys are sequences of        *)
(* character codes.                                                        *)
(***************************************************************************)
\* MinIO.BucketName: "b".
bucket == <<98>>

\* strings.Contains.
Contains(text, sub) ==
    \E i \in 1 .. Len(text) - Len(sub) + 1 : SubSeq(text, i, i + Len(sub) - 1) = sub

\* parts[len(parts)-1] of strings.Split(text, "/"): what follows the last
\* "/", the whole text when it has none.
LastSegment(text) ==
    LET slashes == {i \in DOMAIN text : text[i] = 47}
    IN  IF slashes = {} THEN text
        ELSE SubSeq(text, (CHOOSE i \in slashes : \A j \in slashes : j <= i) + 1,
                    Len(text))

\* filename[:idx] for the first "?" of the name, the name when it has none.
StripQuery(filename) ==
    LET marks == {i \in DOMAIN filename : filename[i] = 63}
    IN  IF marks = {} THEN filename
        ELSE SubSeq(filename, 1, (CHOOSE i \in marks : \A j \in marks : i <= j) - 1)

\* strings.TrimPrefix.
TrimPrefix(text, prefix) ==
    IF Len(text) >= Len(prefix) /\ SubSeq(text, 1, Len(prefix)) = prefix
    THEN SubSeq(text, Len(prefix) + 1, Len(text))
    ELSE text

\* The test of a stored path before its object is removed: it contains
\* "http" and the bucket name.
IsMinIOURL(path) == Contains(path, <<104, 116, 116, 112>>) /\ Contains(path, bucket)

\* The file name the services hand to DeleteFile for a stored path.
ImageFilename(path) == StripQuery(LastSegment(path))

\* MinIOService.DeleteFile: the key it hands to RemoveObject.
DeleteFileKey(objectPath) ==
    TrimPrefix(IF Contains(objectPath, <<104, 116, 116, 112>>)
               THEN LastSegment(objectPath) ELSE objectPath,
               bucket \o <<47>>)

\* The stored paths whose objects DeleteMovie removes: poster and backdrop,
\* each when it is a MinIO URL.
PathsOnDelete(existing) ==
    {path \in {existing.poster_path, existing.backdrop_path} : IsMinIOURL(path)}

\* The stored paths whose objects UpdateMovie removes: poster and backdrop,
\* each when the payload carries another, non-empty path and the stored
\* one is a MinIO URL.
PathsOnUpdate(m, existing) ==
    {path \in (IF m.poster_path # <<>> /\ m.poster_path # existing.poster_path
               THEN {existing.poster_path} ELSE {})
              \cup
              (IF m.backdrop_path # <<>> /\ m.backdrop_path # existing.backdrop_path
               THEN {existing.backdrop_path} ELSE {}) : IsMinIOURL(path)}

\* The keys RemoveObject is called with for these paths.
RemovalKeys(paths) == {DeleteFileKey(ImageFilename(path)) : path \in paths}

\* The removals of one request with their outcome: a removal that fails is
\* logged as a warning.
Removals(keys, removed) == {[key |-> k, ok |-> k \in removed] : k \in keys}

\* A cleanup that returns the error of a failed removal.
CleanupErrorReturned(keys, removed) ==
    IF removed # keys THEN "failed to delete file" ELSE NoError

\* The error the service returns for failed removals: none, they are only
\* logged.
CleanupError(keys, removed) == NoError

\* CreateMovie up to its store write: the title check, then the lookup of
\* the external id when it is positive.
CreateMovieCheck(p, m) ==
    /\ Free(p)
    /\ \E fail \in BOOLEAN :
         proc' = [proc EXCEPT ![p] =
             IF m.title = ""
             THEN Finished("movie title is required")
             ELSE IF m.tmdb_id > 0 /\ fail
             THEN Finished("failed to check existing movie")
             ELSE IF m.tmdb_id > 0 /\ FindByTMDBID(movies, m.tmdb_id) # Nil
             THEN Finished("movie with TMDB ID already exists")
             ELSE [Idle EXCEPT !.pc = "create_write", !.movie = m]]
    /\ UNCHANGED <<storeVars, runs, queryVars>>

\* CreateMovie, its repo.Create.
CreateMovieWrite(p) ==
    /\ proc[p].pc = "create_write"
    /\ LET res == Create(movies, proc[p].movie, nextMovieId, now)
       IN \E fail \in BOOLEAN :
            IF fail \/ ~res.ok \/ nextMovieId > MaxMovieId
            THEN /\ proc' = [proc EXCEPT ![p] = Finished(StoreError)]
                 /\ UNCHANGED <<movies, nextMovieId, now>>
            ELSE /\ movies' = res.rows
                 /\ nextMovieId' = nextMovieId + 1
                 /\ now' = now + 1
                 /\ proc' = [proc EXCEPT ![p] = Finished(NoError)]
    /\ UNCHANGED <<genreVars, languages, syncLogs, runs, queryVars>>

\* The struct without the copy of the stored external id.
UpdateMoviePayloadOwnTMDBID(id, m, existing) ==
    [m EXCEPT !.id = id, !.created_at = existing.created_at]

\* The struct UpdateMovie hands to repo.Update: id from the path, creation
\* time and external id from the stored row.
UpdateMoviePayload(id, m, existing) ==
    [m EXCEPT !.id = id, !.created_at = existing.created_at,
              !.tmdb_id = existing.tmdb_id]

\* UpdateMovie up to its store write: repo.FindByID, the removal of the
\* images the payload replaces, then the struct to write.
UpdateMovieFind(p, id, m) ==
    /\ Free(p)
    /\ LET existing == FindByID(movies, id)
       IN \E fail \in BOOLEAN, removed \in SUBSET RemovalKeys(PathsOnUpdate(m, existing)) :
            IF fail \/ existing = Nil
            THEN /\ proc' = [proc EXCEPT ![p] =
                        IF fail THEN Finished(StoreError)
                        ELSE Finished("movie not found")]
                 /\ UNCHANGED objects
            ELSE /\ proc' = [proc EXCEPT ![p] =
                        [Idle EXCEPT !.pc = "update_write", !.id = id,
                                     !.movie = UpdateMoviePayload(id, m, existing)]]
                 /\ objects' = objects \ removed
    /\ UNCHANGED <<storeVars, runs, listVars, chartVars, httpVars, uploadVars, repoVars,
                   logVars, imageLog>>

\* UpdateMovie, its repo.Update.
UpdateMovieWrite(p) ==
    /\ proc[p].pc = "update_write"
    /\ LET res == Update(movies, proc[p].movie)
       IN \E fail \in BOOLEAN :
            IF fail \/ ~res.ok
            THEN /\ proc' = [proc EXCEPT ![p] = Finished(StoreError)]
                 /\ UNCHANGED movies
            ELSE /\ movies' = res.rows
                 /\ proc' = [proc EXCEPT ![p] = Finished(NoError)]
    /\ UNCHANGED <<genreVars, languages, syncLogs, nextMovieId, now, runs, queryVars>>

\* DeleteMovie up to its store write: repo.FindByID and the removal of the
\* movie's images.
DeleteMovieFind(p, id) ==
    /\ Free(p)
    /\ LET existing == FindByID(movies, id)
       IN \E fail \in BOOLEAN, removed \in SUBSET RemovalKeys(PathsOnDelete(existing)) :
            IF fail \/ existing = Nil
            THEN /\ proc' = [proc EXCEPT ![p] =
                        IF fail THEN Finished(StoreError)
                        ELSE Finished("movie not found")]
                 /\ UNCHANGED objects
            ELSE /\ proc' = [proc EXCEPT ![p] = [Idle EXCEPT !.pc = "delete_write",
                                                             !.id = id]]
                 /\ objects' = objects \ removed
    /\ UNCHANGED <<storeVars, runs, listVars, chartVars, httpVars, uploadVars, repoVars,
                   logVars, imageLog>>

\* DeleteMovie, its repo.Delete.
DeleteMovieWrite(p) ==
    /\ proc[p].pc = "delete_write"
    /\ \E fail \in BOOLEAN :
         IF fail
         THEN /\ proc' = [proc EXCEPT ![p] = Finished(StoreError)]
              /\ UNCHANGED movies
         ELSE /\ movies' = Delete(movies, proc[p].id)
              /\ proc' = [proc EXCEPT ![p] = Finished(NoError)]
    /\ UNCHANGED <<genreVars, languages, syncLogs, nextMovieId, now, runs, queryVars>>

(***************************************************************************)
(* The movie handlers: MovieHandler.GetMovieByID, CreateMovie, UpdateMovie *)
(* and DeleteMovie, each with the service call it makes, as one step.      *)
(***************************************************************************)
\* A request body: JSON that BodyParser turns into a MovieRequest, or not.
Json(m) == [kind |-> "json", movie |-> m]

Malformed == [kind |-> "malformed", movie |-> Nil]

\* strconv.ParseUint(text, 10, 32) fails for text that is no number and for
\* a negative number.
ParseUintFails(q) == q.kind # "int" \/ q.val < 0

Respond(status, e) == [status |-> status, err |-> e]

GetMovieByID(idParam) ==
    /\ ~httpIn.called
    /\ httpIn' = [called |-> TRUE, handler |-> "get", id |-> idParam,
                  body |-> NoRequest.body]
    /\ \E fail \in BOOLEAN :
         httpOut' =
             IF ParseUintFails(idParam) THEN Respond(StatusBadRequest, "Invalid movie ID")
             ELSE IF fail THEN Respond(StatusNotFound, StoreError)
             ELSE IF FindByID(movies, idParam.val) = Nil
             THEN Respond(StatusNotFound, "movie not found")
             ELSE Respond(StatusOK, NoError)
    /\ UNCHANGED <<storeVars, runs, proc, listVars, chartVars, uploadVars, repoVars, logVars, imageVars>>

CreateMovie(body) ==
    /\ ~httpIn.called
    /\ httpIn' = [called |-> TRUE, handler |-> "create", id |-> NoRequest.id,
                  body |-> body]
    /\ LET m == body.movie
           res == Create(movies, m, nextMovieId, now)
       IN \E failFind, failCreate \in BOOLEAN :
            IF body.kind # "json"
            THEN /\ httpOut' = Respond(StatusBadRequest, "Invalid request body")
                 /\ UNCHANGED <<movies, nextMovieId, now>>
            ELSE IF m.title = ""
            THEN /\ httpOut' = Respond(StatusInternalServerError, "movie title is required")
                 /\ UNCHANGED <<movies, nextMovieId, now>>
            ELSE IF m.tmdb_id > 0 /\ failFind
            THEN /\ httpOut' = Respond(StatusInternalServerError, StoreError)
                 /\ UNCHANGED <<movies, nextMovieId, now>>
            ELSE IF m.tmdb_id > 0 /\ FindByTMDBID(movies, m.tmdb_id) # Nil
            THEN /\ httpOut' = Respond(StatusInternalServerError,
                                       "movie with TMDB ID already exists")
                 /\ UNCHANGED <<movies, nextMovieId, now>>
            ELSE IF failCreate \/ ~res.ok \/ nextMovieId > MaxMovieId
            THEN /\ httpOut' = Respond(StatusInternalServerError, StoreError)
                 /\ UNCHANGED <<movies, nextMovieId, now>>
            ELSE /\ httpOut' = Respond(StatusCreated, NoError)
                 /\ movies' = res.rows
                 /\ nextMovieId' = nextMovieId + 1
                 /\ now' = now + 1
    /\ UNCHANGED <<genreVars, languages, syncLogs, runs, proc, listVars, chartVars, uploadVars, repoVars, logVars, imageVars>>

UpdateMovie(idParam, body) ==
    /\ ~httpIn.called
    /\ httpIn' = [called |-> TRUE, handler |-> "update", id |-> idParam, body |-> body]
    /\ LET existing == FindByID(movies, idParam.val)
           res == Update(movies, UpdateMoviePayload(idParam.val, body.movie, existing))
           keys == RemovalKeys(PathsOnUpdate(body.movie, existing))
       IN \E failFind, failUpdate \in BOOLEAN, removed \in SUBSET keys :
            IF ParseUintFails(idParam)
            THEN /\ httpOut' = Respond(StatusBadRequest, "Invalid movie ID")
                 /\ UNCHANGED <<movies, imageVars>>
            ELSE IF body.kind # "json"
            THEN /\ httpOut' = Respond(StatusBadRequest, "Invalid request body")
                 /\ UNCHANGED <<movies, imageVars>>
            ELSE IF failFind
            THEN /\ httpOut' = Respond(StatusInternalServerError, StoreError)
                 /\ UNCHANGED <<movies, imageVars>>
            ELSE IF existing = Nil
            THEN /\ httpOut' = Respond(StatusInternalServerError, "movie not found")
                 /\ UNCHANGED <<movies, imageVars>>
            ELSE /\ objects' = objects \ removed
                 /\ imageLog' = Removals(keys, removed)
                 /\ IF CleanupError(keys, removed) # NoError
                    THEN /\ httpOut' = Respond(StatusInternalServerError,
                                               CleanupError(keys, removed))
                         /\ UNCHANGED movies
                    ELSE IF failUpdate \/ ~res.ok
                    THEN /\ httpOut' = Respond(StatusInternalServerError, StoreError)
                         /\ UNCHANGED movies
                    ELSE /\ httpOut' = Respond(StatusOK, NoError)
                         /\ movies' = res.rows
    /\ UNCHANGED <<genreVars, languages, syncLogs, nextMovieId, now, runs, proc, listVars,
                   chartVars, uploadVars, repoVars, logVars>>

DeleteMovie(idParam) ==
    /\ ~httpIn.called
    /\ httpIn' = [called |-> TRUE, handler |-> "delete", id |-> idParam,
                  body |-> NoRequest.body]
    /\ LET existing == FindByID(movies, idParam.val)
           keys == RemovalKeys(PathsOnDelete(existing))
       IN \E failFind, failDelete \in BOOLEAN, removed \in SUBSET keys :
            IF ParseUintFails(idParam)
            THEN /\ httpOut' = Respond(StatusBadRequest, "Invalid movie ID")
                 /\ UNCHANGED <<movies, imageVars>>
            ELSE IF failFind
            THEN /\ httpOut' = Respond(StatusInternalServerError, StoreError)
                 /\ UNCHANGED <<movies, imageVars>>
            ELSE IF existing = Nil
            THEN /\ httpOut' = Respond(StatusInternalServerError, "movie not found")
                 /\ UNCHANGED <<movies, imageVars>>
            ELSE /\ objects' = objects \ removed
                 /\ imageLog' = Removals(keys, removed)
                 /\ IF CleanupError(keys, removed) # NoError
                    THEN /\ httpOut' = Respond(StatusInternalServerError,
                                               CleanupError(keys, removed))
                         /\ UNCHANGED movies
                    ELSE IF failDelete
                    THEN /\ httpOut' = Respond(StatusInternalServerError, StoreError)
                         /\ UNCHANGED movies
                    ELSE /\ httpOut' = Respond(StatusOK, NoError)
                         /\ movies' = Delete(movies, idParam.val)
    /\ UNCHANGED <<genreVars, languages, syncLogs, nextMovieId, now, runs, proc, listVars,
                   chartVars, uploadVars, repoVars, logVars>>

\* The handler has sent the response.
HttpReturn ==
    /\ httpIn.called
    /\ httpIn' = NoRequest
    /\ httpOut' = NoResponse
    /\ imageLog' = {}
    /\ UNCHANGED <<storeVars, runs, proc, listVars, chartVars, uploadVars, repoVars, logVars,
                   objects>>

(***************************************************************************)
(* Specifications                                                          *)
(***************************************************************************)
MovieIds == 1 .. MaxMovieId

\* Items a TMDB page may carry.
Items ==
    [id : 1 .. MaxTmdbId, title : Titles, original_language : LangCodes,
     genre_ids : {{}}]

\* Movies a create or update request may carry (handlers.MovieRequest turned
\* into a models.Movie: no id, no creation time).
Requests ==
    {Movie(0, t, ti, ZeroTime) : t \in 0 .. MaxTmdbId, ti \in Titles \cup {""}}

SyncStep(p, lens, items) ==
    \/ SyncFetchFail(p)
    \/ SyncFetchOK(p, lens)
    \/ SyncLangFind(p, items)
    \/ SyncLangCreate(p)
    \/ SyncGenres(p)
    \/ SyncFind(p)
    \/ SyncCreate(p)
    \/ SyncUpdate(p)
    \/ SyncWriteLog(p)

CrudStep(p, requests) ==
    \/ \E m \in requests : CreateMovieCheck(p, m)
    \/ CreateMovieWrite(p)
    \/ \E id \in MovieIds, m \in requests : UpdateMovieFind(p, id, m)
    \/ UpdateMovieWrite(p)
    \/ \E id \in MovieIds : DeleteMovieFind(p, id)
    \/ DeleteMovieWrite(p)

\* One task: the requests are served one after the other.
SeqNext ==
    \/ \E n \in {0, 1, 2} : SyncStart(1, n, MaxRuns)
    \/ SyncStep(1, 0 .. MaxItems, Items)
    \/ CrudStep(1, Requests)
    \/ Return(1)

SeqSpec == Init /\ [][SeqNext]_vars

\* Two tasks serve requests at the same time; the sync items all carry the
\* one external id the create requests contend for.
RaceItems == {it \in Items : it.id = 1}
RaceRequests == {m \in Requests : m.tmdb_id \in {0, 1} /\ m.title = "A"}

Next ==
    \E p \in Procs :
        \/ \E n \in {1} : SyncStart(p, n, MaxRuns)
        \/ SyncStep(p, 0 .. MaxItems, RaceItems)
        \/ CrudStep(p, RaceRequests)
        \/ Return(p)

Spec == Init /\ [][Next]_vars

\* Two tasks run sync at the same time over items of one external id.
SyncRaceNext ==
    \E p \in Procs :
        \/ SyncStart(p, 1, MaxRaceRuns)
        \/ SyncStep(p, 0 .. MaxItems, RaceItems)
        \/ Return(p)

SyncRaceSpec == Init /\ [][SyncRaceNext]_vars

\* Sync runs alone, over items of one external id that carry genre ids.
GenreIds == {28} \cup (1 .. MaxGenreId - 1)

GenreItems ==
    [id : {1}, title : Titles, original_language : LangCodes,
     genre_ids : SUBSET GenreIds]

GenreNext ==
    \/ SyncStart(1, 1, MaxRuns)
    \/ SyncStep(1, 0 .. MaxItems, GenreItems)
    \/ Return(1)

GenreSpec == Init /\ [][GenreNext]_vars

\* One movie request after the other, from the empty store.
HttpIds == {NotANumber, Number(0 - 1)} \cup {Number(n) : n \in MovieIds}

HttpBodies == {Malformed} \cup {Json(m) : m \in Requests}

HttpNext ==
    \/ \E idParam \in HttpIds : GetMovieByID(idParam)
    \/ \E body \in HttpBodies : CreateMovie(body)
    \/ \E idParam \in HttpIds, body \in HttpBodies : UpdateMovie(idParam, body)
    \/ \E idParam \in HttpIds : DeleteMovie(idParam)
    \/ HttpReturn

HttpSpec == Init /\ [][HttpNext]_vars

\* One sync run from the empty store, for every requested page count around
\* the clamp; the items of its pages carry one external id.  The task
\* that serves the request keeps running: every fetch and every store call
\* returns (http.Client.Timeout, the query timeout of withTimeout).
PageCounts == -1 .. MaxPages + 2

PagesItems == {it \in Items : it.id = 1}

PagesNext ==
    \/ \E n \in PageCounts : SyncStart(1, n, MaxRuns)
    \/ SyncStep(1, 0 .. MaxItems, PagesItems)

PagesSpec ==
    Init /\ [][PagesNext]_vars /\ WF_vars(SyncStep(1, 0 .. MaxItems, PagesItems))

(***************************************************************************)
(* The list query.  Texts are spelled as sequences of character codes, so  *)
(* that ILIKE and the comparison of dates work on their characters.        *)
(***************************************************************************)
\* Go's int, scaled down from 64 bits: products wrap around.
MaxInt == 2 ^ (IntBits - 1) - 1

MinInt == 0 - 2 ^ (IntBits - 1)

Wrap(x) == ((x + 2 ^ (IntBits - 1)) % 2 ^ IntBits) - 2 ^ (IntBits - 1)

Lower(c) == IF c \in 65 .. 90 THEN c + 32 ELSE c

\* text LIKE pattern, case-insensitively: % is 37, _ is 95.
RECURSIVE ILike(_, _)
ILike(text, pattern) ==
    IF pattern = <<>> THEN text = <<>>
    ELSE IF Head(pattern) = 37
         THEN \/ ILike(text, Tail(pattern))
              \/ text # <<>> /\ ILike(Tail(text), pattern)
         ELSE /\ text # <<>>
              /\ Head(pattern) = 95 \/ Lower(Head(pattern)) = Lower(Head(text))
              /\ ILike(Tail(text), Tail(pattern))

\* Comparison of two texts, character by character.
RECURSIVE TextLeq(_, _)
TextLeq(a, b) ==
    IF a = <<>> THEN TRUE
    ELSE IF b = <<>> THEN FALSE
    ELSE IF Head(a) # Head(b) THEN Head(a) < Head(b)
    ELSE TextLeq(Tail(a), Tail(b))

\* The rows the WHERE clauses keep.
Matching(rows, search, startDate, endDate) ==
    LET searchPattern == <<37>> \o search \o <<37>>
    IN  {m \in rows :
            /\ search # <<>> =>
                   \/ ILike(m.title, searchPattern)
                   \/ ILike(m.overview, searchPattern)
                   \/ ILike(m.original_title, searchPattern)
            /\ startDate # <<>> => TextLeq(startDate, m.release_date)
            /\ endDate # <<>> => TextLeq(m.release_date, endDate)}

validSortFields ==
    {"id", "title", "release_date", "vote_average", "popularity", "created_at", "updated_at"}

SortField(sortBy) == IF sortBy \in validSortFields THEN sortBy ELSE "updated_at"

\* An ORDER BY that takes the caller's order as it comes.
SortOrderAsGiven(order) == order

SortOrder(order) == IF order \in {"ASC", "asc"} THEN order ELSE "DESC"

KeyLeq(a, b, field) ==
    IF field \in {"title", "release_date"} THEN TextLeq(a[field], b[field])
    ELSE a[field] <= b[field]

\* The orders ORDER BY field order can deliver the rows in: rows of equal
\* key come in any order.
Sorted(rows, field, order) ==
    {s \in [1 .. Cardinality(rows) -> rows] :
        /\ \A i, j \in DOMAIN s : i # j => s[i] # s[j]
        /\ \A i, j \in DOMAIN s :
              i < j => IF order = "DESC" THEN KeyLeq(s[j], s[i], field)
                       ELSE KeyLeq(s[i], s[j], field)}

\* OFFSET offset LIMIT limit; gorm leaves out an OFFSET that is not positive.
Slice(s, offset, limit) ==
    LET skip == IF offset > 0 THEN offset ELSE 0
        last == IF skip + limit < Len(s) THEN skip + limit ELSE Len(s)
    IN  IF limit < 0 THEN SubSeq(s, skip + 1, Len(s)) ELSE SubSeq(s, skip + 1, last)

Offset(page, limit) == Wrap((page - 1) * limit)

\* The results the store can answer with.
FindAll(rows, page, limit, search, sortBy, order, startDate, endDate) ==
    LET found == Matching(rows, search, startDate, endDate)
        total == Cardinality(found)
        offset == Offset(page, limit)
    IN  {[movies |-> Slice(s, offset, limit), total |-> total] :
            s \in Sorted(found, SortField(sortBy), SortOrder(order))}

ClampLimitNoMax(limit) == IF limit < 1 THEN DefaultLimit ELSE limit

ClampLimit(limit) ==
    IF limit < 1 THEN DefaultLimit ELSE IF limit > MaxLimit THEN MaxLimit ELSE limit

ClampPage(page) == IF page < 1 THEN 1 ELSE page

\* c.Query(key, defaultValue): the default stands in for an absent parameter.
Query(q, defaultValue) == IF q.kind = "absent" THEN defaultValue ELSE q

\* strconv.Atoi with the error dropped: 0 for text that is no number, the
\* nearest int for a number out of range.
Atoi(q) ==
    IF q.kind # "int" THEN 0
    ELSE IF q.val > MaxInt THEN MaxInt
    ELSE IF q.val < MinInt THEN MinInt
    ELSE q.val

\* Go's integer division: the quotient is truncated toward zero.
GoDiv(a, b) ==
    LET abs(x) == IF x < 0 THEN 0 - x ELSE x
        q == abs(a) \div abs(b)
    IN  Wrap(IF (a < 0) = (b < 0) THEN q ELSE 0 - q)

NoMeta ==
    [page |-> 0, limit |-> 0, total |-> 0, total_pages |-> 0,
     has_next |-> FALSE, has_previous |-> FALSE]

\* utils.CreatePaginationMeta, for a limit other than 0.
CreatePaginationMeta(page, limit, total) ==
    LET pages == GoDiv(Wrap(Wrap(total + limit) - 1), limit)
        totalPages == IF pages = 0 THEN 1 ELSE pages
    IN  [page |-> page, limit |-> limit, total |-> total, total_pages |-> totalPages,
         has_next |-> page < totalPages, has_previous |-> page > 1]

\* MovieHandler.GetAllMovies with the parsed page and limit: the service
\* clamps them and queries the store, the handler computes the metadata from
\* the values it parsed.  The division by a limit of 0 panics; the recover
\* middleware turns the panic into an error, which the error handler
\* answers with status 500.
GetAllMovies(page, limit, search, sortBy, order, startDate, endDate) ==
    LET p == ClampPage(page)
        l == ClampLimit(limit)
    IN  /\ ~listIn.called
        /\ \E res \in FindAll(movies, p, l, search, sortBy, order, startDate, endDate) :
               listOut' = [page |-> p, limit |-> l, sortBy |-> SortField(sortBy),
                           order |-> SortOrder(order), movies |-> res.movies,
                           total |-> res.total,
                           status |-> IF limit = 0 THEN StatusInternalServerError
                                      ELSE StatusOK,
                           meta |-> IF limit = 0 THEN NoMeta
                                    ELSE CreatePaginationMeta(page, limit, res.total)]
        /\ listIn' = [called |-> TRUE, page |-> page, limit |-> limit,
                      search |-> search, sortBy |-> sortBy, order |-> order,
                      startDate |-> startDate, endDate |-> endDate]
        /\ UNCHANGED <<storeVars, runs, proc, chartVars, httpVars, uploadVars, repoVars, logVars, imageVars>>

\* The handler has sent the response.
ListReturn ==
    /\ listIn.called
    /\ listIn' = NoQuery
    /\ listOut' = NoResult
    /\ UNCHANGED <<storeVars, runs, proc, chartVars, httpVars, uploadVars, repoVars, logVars, imageVars>>

\* Store contents of the list query: up to MaxListRows movies, each with one
\* of three sets of column values; two of them were updated at the same time.
ListMovie(id, title, releaseDate, updatedAt) ==
    [id |-> id, tmdb_id |-> id, title |-> title, overview |-> <<>>,
     original_title |-> title, release_date |-> releaseDate, vote_average |-> 0,
     popularity |-> 0, created_at |-> id, updated_at |-> updatedAt]

ListColumns ==
    {<<<<65>>, <<49, 57>>, MaxListRows + 1>>,
     <<<<97, 98>>, <<50, 48>>, MaxListRows + 1>>,
     <<<<66>>, <<>>, MaxListRows + 2>>}

ListStores ==
    UNION {{{ListMovie(i, c[i][1], c[i][2], c[i][3]) : i \in 1 .. n} :
               c \in [1 .. n -> ListColumns]} : n \in 0 .. MaxListRows}

ListPages == {MinInt, 0, 1, 2, 2 ^ (IntBits - 2) + 1, MaxInt}

ListLimits == {MinInt, 0, 1, 2, MaxLimit, MaxLimit + 1, MaxInt}

ListSearches == {<<>>, <<97>>}

ListSorts == {"id", "title", "name"}

ListOrders == {"asc", "down"}

ListDates == {<<>>, <<50>>}

ListInit ==
    /\ movies \in ListStores
    /\ languages = {}
    /\ genres = {}
    /\ movieGenres = {}
    /\ syncLogs = <<>>
    /\ nextMovieId = MaxListRows + 1
    /\ now = MaxListRows + 2
    /\ runs = 0
    /\ proc = [p \in Procs |-> Idle]
    /\ listIn = NoQuery
    /\ listOut = NoResult
    /\ chartIn = NoChart
    /\ chartOut = NoChartData
    /\ httpIn = NoRequest
    /\ httpOut = NoResponse
    /\ uploads = <<>>
    /\ repoCall = NoCall
    /\ logOut = NoLogOut
    /\ objects = {}
    /\ imageLog = {}

\* The page and limit parameters of a request.
ListPageQueries == {Absent, NotANumber} \cup {Number(n) : n \in ListPages}

ListLimitQueries == {Absent, NotANumber} \cup {Number(n) : n \in ListLimits}

ListNext ==
    \/ ListReturn
    \/ \E page \in ListPageQueries, limit \in ListLimitQueries, search \in ListSearches,
          sortBy \in ListSorts, order \in ListOrders, startDate, endDate \in ListDates :
           GetAllMovies(Atoi(Query(page, Number(1))), Atoi(Query(limit, Number(DefaultLimit))),
                        search, sortBy, order, startDate, endDate)

ListSpec == ListInit /\ [][ListNext]_vars

(***************************************************************************)
(* The chart queries                                                       *)
(***************************************************************************)
\* strconv.Atoi returns an error for text that is no number and for a number
\* out of the range of int.
AtoiFails(q) == q.kind # "int" \/ q.val > MaxInt \/ q.val < MinInt

months == <<"Jan", "Feb", "Mar", "Apr", "May", "Jun", "Jul", "Aug", "Sep", "Oct", "Nov", "Dec">>

\* The four decimal digits of the year, as characters.
yearStr(year) ==
    <<48 + (year \div 1000), 48 + ((year \div 100) % 10), 48 + ((year \div 10) % 10),
      48 + (year % 10)>>

HasPrefix(text, prefix) ==
    Len(text) >= Len(prefix) /\ SubSeq(text, 1, Len(prefix)) = prefix

IsDigit(c) == c \in 48 .. 57

\* CAST(t AS INTEGER) of a text of two characters succeeds for two digits
\* and for one digit with a sign or a blank; every other text is an error.
CanCast(t) ==
    \/ IsDigit(t[1]) /\ IsDigit(t[2])
    \/ t[1] \in {32, 43, 45} /\ IsDigit(t[2])
    \/ IsDigit(t[1]) /\ t[2] = 32

CastInteger(t) ==
    IF IsDigit(t[1]) /\ IsDigit(t[2]) THEN (t[1] - 48) * 10 + (t[2] - 48)
    ELSE IF t[1] = 45 THEN 0 - (t[2] - 48)
    ELSE IF IsDigit(t[2]) THEN t[2] - 48
    ELSE t[1] - 48

\* The rows of the monthly query: one per distinct text in positions 6-7 of
\* the release dates of the year, with the number of movies that carry it.
MonthGroups(rows, year) ==
    LET found == {m \in rows : HasPrefix(m.release_date, yearStr(year))
                               /\ Len(m.release_date) >= 7}
    IN  {[text |-> g, count |-> Cardinality({m \in found : SubSeq(m.release_date, 6, 7) = g})] :
            g \in {SubSeq(m.release_date, 6, 7) : m \in found}}

\* ORDER BY month: rows of the same month come in any order.
MonthCounts(groups) ==
    {mc \in [1 .. Cardinality(groups) -> groups] :
        /\ \A i, j \in DOMAIN mc : i # j => mc[i] # mc[j]
        /\ \A i, j \in DOMAIN mc :
              i < j => CastInteger(mc[i].text) <= CastInteger(mc[j].text)}

\* monthMap[m] after the loop over the rows: the count of the last row of
\* month m, 0 (the zero value of the map) when there is none.
monthMap(mc, m) ==
    LET at == {i \in DOMAIN mc : CastInteger(mc[i].text) = m}
    IN  IF at = {} THEN 0
        ELSE mc[CHOOSE i \in at : \A j \in at : j <= i].count

\* movieRepository.GetMoviesByMonth: the answers the store can give; the
\* query fails when a text in positions 6-7 is no integer.
GetMoviesByMonth(rows, year) ==
    LET groups == MonthGroups(rows, year)
    IN  IF \E g \in groups : ~CanCast(g.text)
        THEN {[err |-> StoreError, results |-> <<>>]}
        ELSE {[err |-> NoError,
               results |-> [i \in 1 .. 12 |-> [label |-> months[i], value |-> monthMap(mc, i)]]] :
                 mc \in MonthCounts(groups)}

MinYear == 1900

MaxYear == 2100

\* MovieHandler.GetMonthlyChartData with the year parameter of the path.
GetMonthlyChartData(yearParam) ==
    LET year == Atoi(yearParam)
    IN  /\ ~chartIn.called
        /\ chartIn' = [called |-> TRUE, chart |-> "monthly", year |-> yearParam,
                       startDate |-> <<>>, endDate |-> <<>>]
        /\ IF AtoiFails(yearParam)
           THEN chartOut' = [status |-> StatusBadRequest, data |-> <<>>]
           ELSE IF year < MinYear \/ year > MaxYear
           THEN chartOut' = [status |-> StatusInternalServerError, data |-> <<>>]
           ELSE \E res \in GetMoviesByMonth(movies, year) :
                    chartOut' = IF res.err # NoError
                                THEN [status |-> StatusInternalServerError, data |-> <<>>]
                                ELSE [status |-> StatusOK, data |-> res.results]
        /\ UNCHANGED <<storeVars, runs, proc, listVars, httpVars, uploadVars, repoVars, logVars, imageVars>>

\* The handler has sent the response.
ChartReturn ==
    /\ chartIn.called
    /\ chartIn' = NoChart
    /\ chartOut' = NoChartData
    /\ UNCHANGED <<storeVars, runs, proc, listVars, httpVars, uploadVars, repoVars, logVars, imageVars>>

\* Release dates of the stored movies: none, a year, months of two years,
\* a day, a month out of the calendar, and text that is no date.
ChartDates ==
    {<<>>,
     <<50, 48, 50, 48>>,
     <<50, 48, 50, 48, 45, 48, 49>>,
     <<50, 48, 50, 48, 45, 48, 49, 45, 49, 53>>,
     <<50, 48, 50, 48, 45, 49, 50>>,
     <<50, 48, 50, 48, 45, 49, 51>>,
     <<50, 48, 50, 49, 45, 48, 49>>,
     <<50, 48, 50, 48, 45, 120, 120>>}

ChartStores ==
    UNION {{{ListMovie(i, <<65>>, c[i], i) : i \in 1 .. n} : c \in [1 .. n -> ChartDates]} :
              n \in 0 .. MaxChartRows}

ChartYears ==
    {NotANumber, Number(MinYear - 1), Number(MinYear), Number(2020), Number(2021),
     Number(MaxYear), Number(MaxYear + 1), Number(MaxInt + 1)}

MonthInit ==
    /\ movies \in ChartStores
    /\ languages = {}
    /\ genres = {}
    /\ movieGenres = {}
    /\ syncLogs = <<>>
    /\ nextMovieId = MaxChartRows + 1
    /\ now = MaxChartRows + 1
    /\ runs = 0
    /\ proc = [p \in Procs |-> Idle]
    /\ listIn = NoQuery
    /\ listOut = NoResult
    /\ chartIn = NoChart
    /\ chartOut = NoChartData
    /\ httpIn = NoRequest
    /\ httpOut = NoResponse
    /\ uploads = <<>>
    /\ repoCall = NoCall
    /\ logOut = NoLogOut
    /\ objects = {}
    /\ imageLog = {}

MonthNext ==
    \/ ChartReturn
    \/ \E yearParam \in ChartYears : GetMonthlyChartData(yearParam)

MonthSpec == MonthInit /\ [][MonthNext]_vars

\* movieRepository.GetMoviesByYear: the movies with a release date of four
\* characters or more inside the date range, counted by the first four
\* characters; the rows come by label, descending, the first YearLimit of
\* them.
YearLimit == 10

YearGroups(rows, startDate, endDate) ==
    LET found == {m \in rows :
                    /\ m.release_date # <<>>
                    /\ Len(m.release_date) >= 4
                    /\ startDate # <<>> => TextLeq(startDate, m.release_date)
                    /\ endDate # <<>> => TextLeq(m.release_date, endDate)}
    IN  {[label |-> g,
          value |-> Cardinality({m \in found : SubSeq(m.release_date, 1, 4) = g})] :
            g \in {SubSeq(m.release_date, 1, 4) : m \in found}}

\* ORDER BY label DESC: the labels differ, so there is one order.
RECURSIVE ByLabelDesc(_)
ByLabelDesc(groups) ==
    IF groups = {} THEN <<>>
    ELSE LET top == CHOOSE g \in groups : \A h \in groups : TextLeq(h.label, g.label)
         IN  <<top>> \o ByLabelDesc(groups \ {top})

GetMoviesByYear(rows, startDate, endDate) ==
    LET sorted == ByLabelDesc(YearGroups(rows, startDate, endDate))
    IN  SubSeq(sorted, 1, Min(YearLimit, Len(sorted)))

\* MovieHandler.GetColumnChartData.
GetColumnChartData(startDate, endDate) ==
    /\ ~chartIn.called
    /\ chartIn' = [called |-> TRUE, chart |-> "yearly", year |-> Absent,
                   startDate |-> startDate, endDate |-> endDate]
    /\ \E fail \in BOOLEAN :
         chartOut' = IF fail THEN [status |-> StatusInternalServerError, data |-> <<>>]
                     ELSE [status |-> StatusOK,
                           data |-> GetMoviesByYear(movies, startDate, endDate)]
    /\ UNCHANGED <<storeVars, runs, proc, listVars, httpVars, uploadVars, repoVars, logVars, imageVars>>

\* Store contents of the by-year chart: movie i was released in year
\* 1999 + i or, like movie 1, in 2000.
YearStores ==
    UNION {{{ListMovie(i, <<65>>, yearStr(IF c[i] THEN 1999 + i ELSE 2000) \o <<45, 48, 49>>, i) :
                i \in 1 .. n} : c \in [1 .. n -> BOOLEAN]} : n \in 0 .. MaxYearRows}

YearDates == {<<>>, yearStr(2005)}

YearInit ==
    /\ movies \in YearStores
    /\ languages = {}
    /\ genres = {}
    /\ movieGenres = {}
    /\ syncLogs = <<>>
    /\ nextMovieId = MaxYearRows + 1
    /\ now = MaxYearRows + 1
    /\ runs = 0
    /\ proc = [p \in Procs |-> Idle]
    /\ listIn = NoQuery
    /\ listOut = NoResult
    /\ chartIn = NoChart
    /\ chartOut = NoChartData
    /\ httpIn = NoRequest
    /\ httpOut = NoResponse
    /\ uploads = <<>>
    /\ repoCall = NoCall
    /\ logOut = NoLogOut
    /\ objects = {}
    /\ imageLog = {}

YearNext ==
    \/ ChartReturn
    \/ \E startDate, endDate \in YearDates : GetColumnChartData(startDate, endDate)

YearSpec == YearInit /\ [][YearNext]_vars

(***************************************************************************)
(* Presigned uploads: UploadHandler.GetPresignedURL and                    *)
(* MinIOService.GeneratePresignedURL.  File names and URLs are sequences   *)
(* of character codes.                                                     *)
(***************************************************************************)
\* filepath.Ext: the suffix of the name from the last dot of its last path
\* element on, empty when that element has no dot.
Ext(filename) ==
    LET dots == {i \in DOMAIN filename :
                    /\ filename[i] = 46
                    /\ \A j \in i .. Len(filename) : filename[j] # 47}
    IN  IF dots = {} THEN <<>>
        ELSE SubSeq(filename, CHOOSE i \in dots : \A j \in dots : j <= i, Len(filename))

\* strings.TrimSuffix.
TrimSuffix(text, suffix) ==
    IF Len(text) >= Len(suffix)
       /\ SubSeq(text, Len(text) - Len(suffix) + 1, Len(text)) = suffix
    THEN SubSeq(text, 1, Len(text) - Len(suffix))
    ELSE text

\* The first SuffixLen characters of the text of a random UUID: hexadecimal
\* digits, any of them.
SuffixLen == 8

Suffixes ==
    {[i \in 1 .. SuffixLen |-> 48],
     [i \in 1 .. SuffixLen |-> IF i = SuffixLen THEN 97 ELSE 48],
     [i \in 1 .. SuffixLen |-> IF i = 1 THEN 102 ELSE 57]}

uniqueFilename(filename, suffix) ==
    TrimSuffix(filename, Ext(filename)) \o <<95>> \o suffix \o Ext(filename)

\* The configuration: bucket "b", public URL "http://h/x".
publicBase == <<104>>

protocol == <<104, 116, 116, 112, 58, 47, 47>>

\* The public URL: protocol, host, "/", bucket, "/", object key.
publicURL(objectPath) == protocol \o publicBase \o <<47>> \o bucket \o <<47>> \o objectPath

\* UploadHandler.GetPresignedURL; the presigned URL is told by its object
\* key.
GetPresignedURL(filename) ==
    /\ Len(uploads) < MaxUploads
    /\ \E suffix \in Suffixes, fail \in BOOLEAN :
         LET objectPath == uniqueFilename(filename, suffix)
         IN  uploads' = Append(uploads,
                 IF filename = <<>>
                 THEN [filename |-> filename, status |-> StatusBadRequest,
                       presigned_key |-> <<>>, public_url |-> <<>>]
                 ELSE IF fail
                 THEN [filename |-> filename, status |-> StatusInternalServerError,
                       presigned_key |-> <<>>, public_url |-> <<>>]
                 ELSE [filename |-> filename, status |-> StatusOK,
                       presigned_key |-> objectPath, public_url |-> publicURL(objectPath)])
    /\ UNCHANGED <<storeVars, runs, proc, listVars, chartVars, httpVars, repoVars, logVars, imageVars>>

\* File names: none, "a.p", "a", ".p", "d/a.b.p" and "d.e/a".
Filenames ==
    {<<>>, <<97, 46, 112>>, <<97>>, <<46, 112>>, <<100, 47, 97, 46, 98, 46, 112>>,
     <<100, 46, 101, 47, 97>>}

UploadNext == \E filename \in Filenames : GetPresignedURL(filename)

UploadSpec == Init /\ [][UploadNext]_vars

(***************************************************************************)
(* The repositories' FindOrCreate, called on their own.  A key is a        *)
(* language code or a genre's TMDB id; the call record holds the key and   *)
(* the name of the row returned.                                           *)
(***************************************************************************)
LanguageFindOrCreate(code, name) ==
    /\ ~repoCall.called
    /\ LET res == FindOrCreateLanguage(languages, code, name)
       IN \E fail \in BOOLEAN :
            IF fail
            THEN /\ repoCall' = [NoCall EXCEPT !.called = TRUE, !.repo = "language",
                                               !.key = code, !.name = name,
                                               !.err = StoreError]
                 /\ UNCHANGED languages
            ELSE /\ repoCall' = [NoCall EXCEPT !.called = TRUE, !.repo = "language",
                                               !.key = code, !.name = name,
                                               !.row = [key |-> res.row.code,
                                                        name |-> res.row.name]]
                 /\ languages' = res.rows
    /\ UNCHANGED <<movies, genreVars, syncLogs, nextMovieId, now, runs, proc, listVars,
                   chartVars, httpVars, uploadVars, logVars, imageVars>>

GenreFindOrCreate(tmdbID, name) ==
    /\ ~repoCall.called
    /\ LET res == FindOrCreateGenre(genres, tmdbID, name)
       IN \E fail \in BOOLEAN :
            IF fail
            THEN /\ repoCall' = [NoCall EXCEPT !.called = TRUE, !.repo = "genre",
                                               !.key = tmdbID, !.name = name,
                                               !.err = StoreError]
                 /\ UNCHANGED genres
            ELSE /\ repoCall' = [NoCall EXCEPT !.called = TRUE, !.repo = "genre",
                                               !.key = tmdbID, !.name = name,
                                               !.row = [key |-> res.row.tmdb_id,
                                                        name |-> res.row.name]]
                 /\ genres' = res.rows
    /\ UNCHANGED <<movies, languages, movieGenres, syncLogs, nextMovieId, now, runs, proc,
                   listVars, chartVars, httpVars, uploadVars, logVars, imageVars>>

\* The caller has the result; the next call can come.
RepoReturn ==
    /\ repoCall.called
    /\ repoCall' = NoCall
    /\ UNCHANGED <<storeVars, runs, proc, listVars, chartVars, httpVars, uploadVars, logVars, imageVars>>

RepoCodes == {"en", "id"}

LanguageNames == {"English", "id"}

GenreNames == {<<"Action">>, <<"Genre", 1>>}

RepoNext ==
    \/ \E code \in RepoCodes, name \in LanguageNames : LanguageFindOrCreate(code, name)
    \/ \E tmdbID \in GenreIds, name \in GenreNames : GenreFindOrCreate(tmdbID, name)
    \/ RepoReturn

RepoSpec == Init /\ [][RepoNext]_vars

(***************************************************************************)
(* MovieHandler.GetLastSyncLog, asked while sync runs                      *)
(***************************************************************************)
GetLastSyncLog ==
    /\ ~logOut.called
    /\ \E fail \in BOOLEAN :
         logOut' = IF fail
                   THEN [called |-> TRUE, status |-> StatusInternalServerError,
                         row |-> NoLogRow]
                   ELSE [called |-> TRUE, status |-> StatusOK,
                         row |-> GetLastSyncLogRow(syncLogs)]
    /\ UNCHANGED <<storeVars, runs, proc, listVars, chartVars, httpVars, uploadVars,
                   repoVars, imageVars>>

LogReturn ==
    /\ logOut.called
    /\ logOut' = NoLogOut
    /\ UNCHANGED <<storeVars, runs, proc, listVars, chartVars, httpVars, uploadVars,
                   repoVars, imageVars>>

LogNext ==
    \/ SyncRaceNext
    \/ GetLastSyncLog
    \/ LogReturn

LogSpec == Init /\ [][LogNext]_vars

(***************************************************************************)
(* Movie requests over movies with image paths, and uploads to the bucket  *)
(***************************************************************************)
\* A client's PUT to a presigned URL: the object is in the bucket.
PutObject(key) ==
    /\ objects' = objects \cup {key}
    /\ UNCHANGED <<storeVars, runs, proc, listVars, chartVars, httpVars, uploadVars,
                   repoVars, logVars, imageLog>>

\* Image paths: none, "/p" as TMDB gives them, the MinIO URLs "http://h/b/k"
\* and "http://h/b/k?x", and "http://h/c/k" of another site.
ImagePaths ==
    {<<>>, <<47, 112>>,
     <<104, 116, 116, 112, 58, 47, 47, 104, 47, 98, 47, 107>>,
     <<104, 116, 116, 112, 58, 47, 47, 104, 47, 98, 47, 107, 63, 120>>,
     <<104, 116, 116, 112, 58, 47, 47, 104, 47, 99, 47, 107>>}

\* The MinIO URL "http://h/b/m" of a second object.
OtherImage == <<104, 116, 116, 112, 58, 47, 47, 104, 47, 98, 47, 109>>

ImageKeys == {<<107>>, <<109>>}

ImageBodies ==
    {Json([Movie(0, 0, "A", ZeroTime) EXCEPT !.poster_path = poster,
                                             !.backdrop_path = backdrop]) :
        poster \in ImagePaths, backdrop \in {<<>>, OtherImage}}

ImageIds == {Number(n) : n \in 1 .. MaxImageMovies}

ImageNext ==
    \/ \E body \in ImageBodies : nextMovieId <= MaxImageMovies /\ CreateMovie(body)
    \/ \E idParam \in ImageIds, body \in ImageBodies : UpdateMovie(idParam, body)
    \/ \E idParam \in ImageIds : DeleteMovie(idParam)
    \/ \E key \in ImageKeys : PutObject(key)
    \/ HttpReturn

ImageSpec == Init /\ [][ImageNext]_vars

(***************************************************************************)
(* Properties                                                              *)
(***************************************************************************)
Running(p) ==
    proc[p].pc \in {"fetch", "lang", "lang_create", "genres", "find", "write", "log"}

SyncDone(p) == proc[p].pc = "sync_done"

\* Rows of sync_logs written by run r.
LogRows(r) == {i \in 1 .. Len(syncLogs) : syncLogs[i].run = r}

\* C2 (state part): the pages fetched so far are 1, 2, ... in this order,
\* never more than min(max(n, 1), 10) of them, and a run without a fetch
\* failure has fetched exactly that many when it returns.
C2_PagesFetched ==
    \A p \in Procs :
        proc[p].run # 0 =>
            LET N == Min(Max(proc[p].req, 1), 10)
            IN /\ proc[p].fetched = [i \in 1 .. Len(proc[p].fetched) |-> i]
               /\ Len(proc[p].fetched) <= N
               /\ Len(proc[p].fetched) <= 10
               /\ SyncDone(p) /\ proc[p].failedPage = 0 =>
                    Len(proc[p].fetched) = N

\* C2 (progress part): a run that has started returns.
C2_Terminates == \A p \in Procs : Running(p) ~> SyncDone(p)

\* C2: for every requested page count n a run without a fetch failure
\* fetches the pages 1..min(max(n,1),10) in order, each once, and then
\* terminates; no run fetches more than 10 pages.
C2_ClampedFetches == []C2_PagesFetched /\ C2_Terminates

\* A run asked for more than 10 pages has returned after 10 fetches.
C2_Witness ==
    \E p \in Procs :
        /\ SyncDone(p)
        /\ proc[p].req > 10
        /\ proc[p].failedPage = 0
        /\ Len(proc[p].fetched) = 10

\* Task p's write of the current item succeeded in this step.
ItemWritten(p) ==
    /\ proc[p].pc = "write"
    /\ proc'[p].moviesAdded + proc'[p].moviesUpdated
         = proc[p].moviesAdded + proc[p].moviesUpdated + 1

\* C1: after the sync pipeline has written an item, the store holds exactly
\* one movie row with the item's external id; the row carries the item's
\* fields, and when a row with that external id was stored before (written
\* for an earlier item of this run, of an earlier run, or by a create
\* request) it keeps that row's internal id and creation timestamp.
C1_UpsertStep ==
    \A p \in Procs :
        ItemWritten(p) =>
            LET it == proc[p].item
                after == {r \in movies' : r.tmdb_id = it.id}
            IN /\ Cardinality(after) = 1
               /\ \A r \in after :
                    /\ r.title = it.title
                    /\ r.created_at # ZeroTime
                    /\ \A o \in movies :
                         o.tmdb_id = it.id =>
                             r.id = o.id /\ r.created_at = o.created_at

C1_UpsertIdempotent == [][C1_UpsertStep]_vars

\* A run has inserted a row for an external id and then written a second
\* item with the same external id over it.
C1_Witness ==
    \E p \in Procs :
        /\ proc[p].moviesAdded = 1
        /\ proc[p].moviesUpdated = 1
        /\ Cardinality({r \in movies : r.tmdb_id = 1}) = 1

\* C8 (first half): no two stored movies carry the same non-zero external id.
UniqueExternalId ==
    \A r1, r2 \in movies :
        r1.tmdb_id = r2.tmdb_id /\ r1.tmdb_id # 0 => r1 = r2

\* C8 (second half): a movie that stays stored over a step keeps its
\* internal id (the movie is told by its external id, which no request can
\* change).
IdStableStep ==
    \A r1 \in movies, r2 \in movies' :
        r1.tmdb_id = r2.tmdb_id => r1.id = r2.id

\* C8: in every reachable state of the concurrent requests no two stored
\* movies share a non-zero external id, and no step changes the internal id
\* of a stored movie.
C8_UniqueAndStable == []UniqueExternalId /\ [][IdStableStep]_vars

\* A create request passed its duplicate check and is about to insert while
\* a row with its non-zero external id has been stored in between.
C8_Witness ==
    \E p \in Procs :
        /\ proc[p].pc = "create_write"
        /\ proc[p].movie.tmdb_id # 0
        /\ \E r \in movies : r.tmdb_id = proc[p].movie.tmdb_id

\* The task stays in the same sync run over the step.
SameRun(p) == proc[p].run # 0 /\ proc'[p].run = proc[p].run

\* C3 (state part): once the fetch of page k has failed, the pages fetched
\* are exactly 1..k, the run returns an error, and its record (in memory
\* and, when written, in sync_logs) has status "failed" and a non-empty
\* error message.
C3_FailedRun ==
    \A p \in Procs :
        proc[p].failedPage # 0 =>
            /\ proc[p].pc \in {"log", "sync_done"}
            /\ proc[p].failedPage <= proc[p].pages
            /\ proc[p].fetched = [i \in 1 .. proc[p].failedPage |-> i]
            /\ proc[p].err # NoError
            /\ proc[p].syncLog.status = "failed"
            /\ proc[p].syncLog.error_message # <<>>
            /\ \A i \in LogRows(proc[p].run) :
                 /\ syncLogs[i].log.status = "failed"
                 /\ syncLogs[i].log.error_message # <<>>

\* C3 (step part): after the failure the run fetches no page and processes
\* no item.
C3_NothingAfterFailure ==
    \A p \in Procs :
        proc[p].failedPage # 0 /\ SameRun(p) =>
            /\ proc'[p].fetched = proc[p].fetched
            /\ proc'[p].received = proc[p].received
            /\ proc'[p].skipped = proc[p].skipped
            /\ proc'[p].moviesAdded = proc[p].moviesAdded
            /\ proc'[p].moviesUpdated = proc[p].moviesUpdated
            /\ proc'[p].inserted = proc[p].inserted
            /\ proc'[p].replaced = proc[p].replaced

\* C3: a failed fetch of page k stops the run: no later page, no further
\* item, an error returned, a record with status "failed" and a message.
C3_FetchFailureAborts == []C3_FailedRun /\ [][C3_NothingAfterFailure]_vars

\* A run of two pages has returned after the fetch of page 2 failed.
C3_Witness ==
    \E p \in Procs :
        /\ SyncDone(p)
        /\ proc[p].pages = 2
        /\ proc[p].failedPage = 2
        /\ proc[p].received > 0

\* C4 (as claimed): a finished sync run has appended exactly one record to
\* sync_logs, also when the store write of the record failed.
C4_OneLogPerRun ==
    \A p \in Procs :
        SyncDone(p) => Cardinality(LogRows(proc[p].run)) = 1

\* C5 (state part): a run that completed its pages returns a record with
\* status "success" whose counts are the rows the run inserted and replaced.
C5_SuccessCounts ==
    \A p \in Procs :
        SyncDone(p) /\ proc[p].failedPage = 0 =>
            /\ proc[p].syncLog.status = "success"
            /\ proc[p].syncLog.movies_added = proc[p].inserted
            /\ proc[p].syncLog.movies_updated = proc[p].replaced

\* C5 (step part): with no other writer, every step of the run grows the
\* movies table by what it adds to the added count; the added count grows
\* exactly on an item whose external id was absent and is then stored, the
\* updated count only on an item whose external id was stored.
C5_CountedSteps ==
    \A p \in Procs :
        SameRun(p) =>
            LET stored(rows) == FindByTMDBID(rows, proc[p].item.id) # Nil
            IN /\ Cardinality(movies') - Cardinality(movies)
                    = proc'[p].moviesAdded - proc[p].moviesAdded
               /\ proc'[p].moviesAdded # proc[p].moviesAdded =>
                    /\ proc'[p].moviesAdded = proc[p].moviesAdded + 1
                    /\ ~stored(movies)
                    /\ stored(movies')
               /\ proc'[p].moviesUpdated # proc[p].moviesUpdated =>
                    /\ proc'[p].moviesUpdated = proc[p].moviesUpdated + 1
                    /\ stored(movies)
                    /\ stored(movies')

\* C5: a run that completes all its pages with no other writer logs
\* "success", added = items absent and inserted, updated = items present
\* and updated, and the movies table grows by exactly the added count.
C5_SuccessfulRun == []C5_SuccessCounts /\ [][C5_CountedSteps]_vars

\* One page with two new movies: added = 2, updated = 0, "success".
C5_Witness ==
    \E p \in Procs :
        /\ SyncDone(p)
        /\ proc[p].fetched = <<1>>
        /\ proc[p].received = 2
        /\ proc[p].syncLog.status = "success"
        /\ proc[p].syncLog.movies_added = 2
        /\ proc[p].syncLog.movies_updated = 0
        /\ Cardinality(movies) = 2

\* C6 (as claimed): the record of every finished run, failed or not,
\* carries the number of rows the run inserted and updated.
C6_LogCountsExact ==
    \A p \in Procs :
        SyncDone(p) =>
            /\ proc[p].syncLog.movies_added = proc[p].inserted
            /\ proc[p].syncLog.movies_updated = proc[p].replaced

\* C7 (state part): every item received is written, skipped or still to
\* come, and a run without a fetch failure ends with every page fetched,
\* every item handled, status "success" and a nil error.
C7_AllItemsHandled ==
    \A p \in Procs :
        /\ Running(p) \/ SyncDone(p) =>
             proc[p].moviesAdded + proc[p].moviesUpdated + proc[p].skipped
                 + proc[p].left = proc[p].received
        /\ SyncDone(p) /\ proc[p].failedPage = 0 =>
             /\ proc[p].left = 0
             /\ Len(proc[p].fetched) = proc[p].pages
             /\ proc[p].err = NoError
             /\ proc[p].syncLog.status = "success"

\* C7 (step part): a failed item is counted neither added nor updated,
\* writes no movie row and does not end the run.
C7_SkipStep ==
    \A p \in Procs :
        SameRun(p) /\ proc'[p].skipped # proc[p].skipped =>
            /\ proc'[p].skipped = proc[p].skipped + 1
            /\ proc'[p].moviesAdded = proc[p].moviesAdded
            /\ proc'[p].moviesUpdated = proc[p].moviesUpdated
            /\ movies' = movies
            /\ proc'[p].pc \in {"lang", "fetch", "log"}
            /\ proc'[p].err = NoError

\* C7: a per-item failure never aborts the run.
C7_ItemFailureSkipped == []C7_AllItemsHandled /\ [][C7_SkipStep]_vars

\* A run of two pages ended in success although items failed and others
\* were written.
C7_Witness ==
    \E p \in Procs :
        /\ SyncDone(p)
        /\ proc[p].err = NoError
        /\ Len(proc[p].fetched) = 2
        /\ proc[p].skipped >= 1
        /\ proc[p].moviesAdded >= 1
        /\ proc[p].syncLog.status = "success"

\* C9: whatever page and limit the list operation is called with, the page
\* and limit of the store query are at least 1 and the limit is at most 100:
\* a page below 1 becomes 1, a limit above 100 becomes 100, a limit below 1
\* becomes 20, and values in range are passed as they are.
C9_ListClamp ==
    listIn.called =>
        /\ listOut.page >= 1
        /\ listOut.limit >= 1 /\ listOut.limit <= 100
        /\ listOut.page = (IF listIn.page < 1 THEN 1 ELSE listIn.page)
        /\ listIn.limit > 100 => listOut.limit = 100
        /\ listIn.limit < 1 => listOut.limit = 20
        /\ listIn.limit \in 1 .. 100 => listOut.limit = listIn.limit

C9_Witness ==
    /\ listIn.called
    /\ listIn.page < 1 /\ listOut.page = 1
    /\ listIn.limit > 100 /\ listOut.limit = 100
    /\ Len(listOut.movies) > 0

\* C10: called with a page p >= 1 and a limit l in 1..100, the list operation
\* returns at most l movies, the total is the number of stored movies that
\* match the search and the date range, the movies returned are those at
\* positions (p-1)*l+1 .. p*l of the sorted matching movies, and the total is
\* at least the number of movies returned.
C10_ListPage ==
    listIn.called /\ listIn.page >= 1 /\ listIn.limit \in 1 .. 100 =>
        LET found == Matching(movies, listIn.search, listIn.startDate, listIn.endDate)
            first == (listIn.page - 1) * listIn.limit + 1
            last == listIn.page * listIn.limit
        IN  /\ Len(listOut.movies) <= listIn.limit
            /\ listOut.total = Cardinality(found)
            /\ listOut.total >= Len(listOut.movies)
            /\ \E s \in Sorted(found, SortField(listIn.sortBy), SortOrder(listIn.order)) :
                   listOut.movies = SubSeq(s, first, Min(last, Len(s)))

\* C11: the sort field of the list query is one of id, title, release_date,
\* vote_average, popularity, created_at, updated_at: the caller's field when
\* it is one of them, updated_at otherwise; the order is ascending exactly
\* when the caller's order is "ASC" or "asc" and descending otherwise, and
\* the movies come back in that order.
C11_SortAllowList ==
    listIn.called =>
        LET allowed == {"id", "title", "release_date", "vote_average",
                        "popularity", "created_at", "updated_at"}
            asc == listIn.order \in {"ASC", "asc"}
            m == listOut.movies
        IN  /\ listOut.sortBy \in allowed
            /\ listOut.sortBy = (IF listIn.sortBy \in allowed THEN listIn.sortBy
                                 ELSE "updated_at")
            /\ listOut.order \in {"ASC", "asc", "DESC"}
            /\ listOut.order \in {"ASC", "asc"} <=> asc
            /\ \A i, j \in DOMAIN m :
                  i < j => IF asc THEN KeyLeq(m[i], m[j], listOut.sortBy)
                           ELSE KeyLeq(m[j], m[i], listOut.sortBy)

\* A call with a field and an order outside the lists returned two movies
\* by updated_at, descending.
C11_Witness ==
    /\ listIn.called
    /\ listIn.sortBy = "name" /\ listOut.sortBy = "updated_at"
    /\ listIn.order = "down" /\ listOut.order = "DESC"
    /\ Len(listOut.movies) >= 2
    /\ listOut.movies[1].updated_at > listOut.movies[2].updated_at

\* C12 (as claimed): the metadata of a list response carries the page and
\* limit applied to the query, total_pages = max(1, ceil(total / limit)) for
\* that limit, has_next iff that page < total_pages, and has_previous iff
\* that page > 1.
C12_MetaFromApplied ==
    listIn.called /\ listOut.status = 200 =>
        LET meta == listOut.meta
            totalPages == Max(1, (listOut.total + listOut.limit - 1) \div listOut.limit)
        IN  /\ meta.page = listOut.page
            /\ meta.limit = listOut.limit
            /\ meta.total_pages = totalPages
            /\ meta.has_next <=> listOut.page < totalPages
            /\ meta.has_previous <=> listOut.page > 1

\* C13 (as claimed): every list request, whatever its page and limit, is
\* answered with a success response while the store is healthy.
C13_ListAlwaysSucceeds ==
    listIn.called => listOut.status = 200

\* C14 (as claimed): for every year in 1900..2100 and every store content
\* the monthly chart answers with 12 entries labelled Jan..Dec in this order,
\* entry m holding the number of stored movies whose release date starts
\* with the year and carries month m in positions 6-7.
C14_MonthlyChart ==
    chartIn.called /\ chartIn.chart = "monthly" /\ chartIn.year.kind = "int"
        /\ chartIn.year.val \in 1900 .. 2100 =>
        LET y == chartIn.year.val
            year == <<48 + (y \div 1000), 48 + ((y \div 100) % 10),
                      48 + ((y \div 10) % 10), 48 + (y % 10)>>
            month(m) == <<48 + (m \div 10), 48 + (m % 10)>>
            count(m) == Cardinality({r \in movies :
                            /\ Len(r.release_date) >= 7
                            /\ SubSeq(r.release_date, 1, 4) = year
                            /\ SubSeq(r.release_date, 6, 7) = month(m)})
            labels == <<"Jan", "Feb", "Mar", "Apr", "May", "Jun",
                        "Jul", "Aug", "Sep", "Oct", "Nov", "Dec">>
        IN  /\ chartOut.status = 200
            /\ Len(chartOut.data) = 12
            /\ \A m \in 1 .. 12 :
                  /\ chartOut.data[m].label = labels[m]
                  /\ chartOut.data[m].value = count(m)

\* C15 (as claimed): every validation error is answered with status 400: a
\* movie id that is no number on get, update and delete, and a create
\* request whose title is empty.
C15_ValidationIs400 ==
    httpIn.called =>
        /\ httpIn.handler \in {"get", "update", "delete"}
             /\ (httpIn.id.kind # "int" \/ httpIn.id.val < 0) => httpOut.status = 400
        /\ httpIn.handler = "create" /\ httpIn.body.kind = "json"
             /\ httpIn.body.movie.title = "" => httpOut.status = 400

\* C16 (as claimed): a get, update or delete request for a well-formed id
\* that is not stored is answered with 404 and leaves the store as it was,
\* and 404 answers a missing movie only, no other store failure.
C16_MissingIs404Step ==
    ~httpIn.called /\ httpIn'.called /\ httpIn'.handler \in {"get", "update", "delete"}
        /\ httpIn'.id.kind = "int" /\ httpIn'.id.val >= 0
        /\ (httpIn'.handler = "update" => httpIn'.body.kind = "json") =>
        LET missing == \A r \in movies : r.id # httpIn'.id.val
            failed == httpOut'.err = "store error"
        IN  /\ missing /\ ~failed => httpOut'.status = 404 /\ movies' = movies
            /\ httpOut'.status = 404 => missing /\ ~failed

C16_MissingIs404 == [][C16_MissingIs404Step]_vars

\* C17 (as claimed): the by-year chart returns at most 10 release years of
\* the movies inside the date range, each with its number of movies, and no
\* year it leaves out has more movies than a year it returns.
C17_TopYearsByCount ==
    chartIn.called /\ chartIn.chart = "yearly" /\ chartOut.status = 200 =>
        LET inRange == {m \in movies :
                          /\ Len(m.release_date) >= 4
                          /\ chartIn.startDate # <<>> => TextLeq(chartIn.startDate, m.release_date)
                          /\ chartIn.endDate # <<>> => TextLeq(m.release_date, chartIn.endDate)}
            years == {SubSeq(m.release_date, 1, 4) : m \in inRange}
            count(y) == Cardinality({m \in inRange : SubSeq(m.release_date, 1, 4) = y})
            data == chartOut.data
            returned == {data[i].label : i \in DOMAIN data}
        IN  /\ Len(data) = Min(10, Cardinality(years))
            /\ returned \subseteq years
            /\ \A i \in DOMAIN data : data[i].value = count(data[i].label)
            /\ \A out \in years \ returned, in \in returned : count(out) <= count(in)

\* C18 (as claimed): any two presigned-upload requests, also for the same
\* file name, get different object keys; each key is the name without its
\* extension, "_", 8 random characters and the extension; and the public
\* URL of a response names the object key of its presigned URL.
C18_DistinctObjectKeys ==
    LET ok == {i \in DOMAIN uploads : uploads[i].status = 200}
    IN  /\ \A i, j \in ok : i # j => uploads[i].presigned_key # uploads[j].presigned_key
        /\ \A i \in ok :
              LET key == uploads[i].presigned_key
                  url == uploads[i].public_url
                  name == uploads[i].filename
              IN  /\ Len(key) = Len(name) + 9
                  /\ \E n \in 0 .. Len(name) :
                        /\ SubSeq(key, 1, n) = SubSeq(name, 1, n)
                        /\ key[n + 1] = 95
                        /\ SubSeq(key, n + 10, Len(key)) = SubSeq(name, n + 1, Len(name))
                        /\ \A k \in n + 1 .. Len(name) : name[k] # 47
                        /\ n < Len(name) => name[n + 1] = 46
                        /\ \A k \in n + 2 .. Len(name) : name[k] # 46
                  /\ Len(url) >= Len(key)
                  /\ SubSeq(url, Len(url) - Len(key) + 1, Len(url)) = key
                  /\ url[Len(url) - Len(key)] = 47

\* The genres linked to the movie with the given id.
LinkedGenres(links, id) == {l[2] : l \in {k \in links : k[1] = id}}

\* C19 (as claimed): when sync updates a movie that exists, the row keeps its
\* id and creation time and takes every other field of the new item, and
\* afterwards the genres linked to the movie are exactly the genre ids of
\* the new item: a genre linked by an earlier item and absent from the new
\* one is linked no more.  Stated for the updates in which the lookup of
\* every genre of the item succeeded.
C19_SyncUpdateOverwritesStep ==
    (/\ proc[1].pc = "write"
     /\ proc[1].movie.id # 0
     /\ proc[1].genres = proc[1].item.genre_ids
     /\ proc'[1].moviesUpdated = proc[1].moviesUpdated + 1)
    => LET id == proc[1].movie.id
           before == FindByID(movies, id)
           after == FindByID(movies', id)
       IN  /\ after = [ItemMovie(proc[1].item) EXCEPT !.id = before.id,
                                                     !.created_at = before.created_at]
           /\ LinkedGenres(movieGenres', id) = proc[1].item.genre_ids

C19_SyncUpdateOverwrites == [][C19_SyncUpdateOverwritesStep]_vars

\* C20: UpdateMovie on an id that exists leaves the stored row's id, creation
\* time and external id as they were, whatever the payload carries for
\* them; when the update succeeds every other field of the row is the
\* payload's, when it fails the row is as before; no other row changes.
C20_UpdateKeepsIdentityStep ==
    (/\ ~httpIn.called
     /\ httpIn'.called
     /\ httpIn'.handler = "update"
     /\ ~ParseUintFails(httpIn'.id)
     /\ FindByID(movies, httpIn'.id.val) # Nil)
    => LET id == httpIn'.id.val
           before == FindByID(movies, id)
           after == FindByID(movies', id)
       IN  /\ after.id = before.id
           /\ after.created_at = before.created_at
           /\ after.tmdb_id = before.tmdb_id
           /\ httpOut'.status = StatusOK => after.title = httpIn'.body.movie.title
           /\ httpOut'.status # StatusOK => after = before
           /\ {r \in movies' : r.id # id} = {r \in movies : r.id # id}

C20_UpdateKeepsIdentity == [][C20_UpdateKeepsIdentityStep]_vars

\* An update that succeeded with a payload whose external id is not the
\* stored one, and whose title the row now carries.
C20_Witness ==
    /\ httpIn.called
    /\ httpIn.handler = "update"
    /\ httpOut.status = StatusOK
    /\ LET row == FindByID(movies, httpIn.id.val)
       IN  /\ row # Nil
           /\ row.tmdb_id # httpIn.body.movie.tmdb_id
           /\ httpIn.body.movie.tmdb_id > 0
           /\ row.title = httpIn.body.movie.title

\* A create request with a well-formed body is answered.
CreateAnswered ==
    ~httpIn.called /\ httpIn'.called /\ httpIn'.handler = "create"
        /\ httpIn'.body.kind = "json"

\* CreateMovie with an empty title, or with a non-zero external id that a
\* stored movie carries, is answered with an error and leaves the movies
\* as they were.
C21_CreateRejectedStep ==
    CreateAnswered =>
        LET m == httpIn'.body.movie
        IN  (m.title = "" \/ (m.tmdb_id > 0 /\ FindByTMDBID(movies, m.tmdb_id) # Nil))
                => /\ httpOut'.status # StatusCreated
                   /\ httpOut'.err # NoError
                   /\ movies' = movies

\* The store takes one more movie with external id 0, whatever it holds.
ZeroTMDBIDAccepted == Create(movies, Movie(0, 0, "A", ZeroTime), nextMovieId, now).ok

\* C21 (as claimed): CreateMovie with an empty title, or with a non-zero
\* external id equal to that of a stored movie, returns an error and leaves
\* the stored movies unchanged; and a movie with external id 0 is under no
\* duplicate check, so that any number of them can be created and coexist.
C21_CreateChecks == [][C21_CreateRejectedStep]_vars /\ []ZeroTMDBIDAccepted

\* C22: during sync a genre of the item whose find-or-create fails is left
\* out and nothing else: the genre loop never skips the item, and the write
\* of the item's movie, when it succeeds, links the movie to the genres that
\* were found and counts the item as added or updated.
C22_GenreFailureSkipsGenreStep ==
    LET q == proc[1]
        r == proc'[1]
        id == IF q.movie.id = 0 THEN nextMovieId ELSE q.movie.id
    IN  /\ q.pc = "genres" /\ r # q =>
              /\ r.pc = "find"
              /\ r.item = q.item
              /\ r.skipped = q.skipped
              /\ r.genres \subseteq q.item.genre_ids
              /\ r.genres \subseteq {g.tmdb_id : g \in genres'}
        /\ q.pc = "write" /\ r # q /\ r.skipped = q.skipped =>
              /\ FindByID(movies', id) # Nil
              /\ FindByID(movies', id).tmdb_id = q.item.id
              /\ q.genres \subseteq LinkedGenres(movieGenres', id)
              /\ r.moviesAdded + r.moviesUpdated = q.moviesAdded + q.moviesUpdated + 1

C22_GenreFailureSkipsGenre == [][C22_GenreFailureSkipsGenreStep]_vars

\* A run that lost a genre of an item, skipped no item, and wrote every
\* item it received with links to genres.
C22_Witness ==
    /\ SyncDone(1)
    /\ proc[1].genreErrors > 0
    /\ proc[1].skipped = 0
    /\ proc[1].received > 0
    /\ proc[1].moviesAdded + proc[1].moviesUpdated = proc[1].received
    /\ movieGenres # {}

\* At most one row of languages per code and one row of genres per TMDB id.
OneRowPerKey ==
    /\ \A l, m \in languages : l.code = m.code => l = m
    /\ \A g, h \in genres : g.tmdb_id = h.tmdb_id => g = h

\* What one FindOrCreate call makes of a table: had are the rows with the
\* call's key before it, keyOf and nameOf read a row.
FindOrCreateEffect(c, before, after, had, keyOf(_), nameOf(_)) ==
    /\ c.err # NoError => after = before
    /\ c.err = NoError /\ had # {} =>
          /\ after = before
          /\ \E r \in had : c.row = [key |-> keyOf(r), name |-> nameOf(r)]
    /\ c.err = NoError /\ had = {} =>
          /\ Cardinality(after) = Cardinality(before) + 1
          /\ before \subseteq after
          /\ \A r \in after \ before : keyOf(r) = c.key /\ nameOf(r) = c.name
          /\ c.row = [key |-> c.key, name |-> c.name]

LanguageCode(l) == l.code

LanguageName(l) == l.name

GenreTMDBID(g) == g.tmdb_id

GenreName(g) == g.name

\* C23: find-or-create of a language by code and of a genre by TMDB id is
\* idempotent: there is never more than one row per key; a call for a key
\* that exists returns the stored row, its name unchanged and the name
\* passed in ignored; a call for an absent key inserts exactly one row with
\* the name given, and a call that fails changes nothing.
C23_FindOrCreateStep ==
    ~repoCall.called /\ repoCall'.called =>
        LET c == repoCall'
        IN  IF c.repo = "language"
            THEN /\ FindOrCreateEffect(c, languages, languages',
                                       {l \in languages : l.code = c.key},
                                       LanguageCode, LanguageName)
                 /\ genres' = genres
            ELSE /\ FindOrCreateEffect(c, genres, genres',
                                       {g \in genres : g.tmdb_id = c.key},
                                       GenreTMDBID, GenreName)
                 /\ languages' = languages

SameRuns == \A p \in Procs : proc'[p].run = proc[p].run

\* The sum of the runs' added counts.
AddedByAll(pr) == pr[1].moviesAdded + pr[2].moviesAdded

\* C24: when two sync runs execute at the same time over items with the
\* same external ids, in every interleaving there is one movie row per
\* external id, a run whose fetches succeeded finishes with status
\* "success" whatever became of its inserts, and the added counts of the
\* runs grow by exactly the rows inserted: an insert the unique index
\* turned down because the other run came first is counted by neither run.
C24_RaceStep ==
    /\ SameRuns => AddedByAll(proc') - AddedByAll(proc)
                      = Cardinality(movies') - Cardinality(movies)
    /\ \A p \in Procs : proc[p].pc = "write" /\ proc'[p].rejected > proc[p].rejected =>
          /\ proc'[p].moviesAdded = proc[p].moviesAdded
          /\ movies' = movies

C24_RaceState ==
    /\ \A r, t \in movies : r.tmdb_id = t.tmdb_id => r = t
    /\ \A p \in Procs : SyncDone(p) /\ proc[p].err = NoError =>
          proc[p].syncLog.status = "success"

C24_ConcurrentSync == []C24_RaceState /\ [][C24_RaceStep]_vars

\* Both runs are done with status "success"; one insert was turned down by
\* the unique index; the one row stored is counted once.
C24_Witness ==
    /\ SyncDone(1) /\ SyncDone(2)
    /\ proc[1].syncLog.status = "success" /\ proc[2].syncLog.status = "success"
    /\ proc[1].rejected + proc[2].rejected >= 1
    /\ Cardinality(movies) = 1
    /\ AddedByAll(proc) = 1

\* C25 (as claimed): GetLastSyncLog returns the log record of the sync run
\* that finished last, the row written last, and nothing when no run was
\* ever logged, also when a run that started earlier finishes after a run
\* that started later.
C25_LastFinishedLogStep ==
    ~logOut.called /\ logOut'.called /\ logOut'.status = StatusOK =>
        IF syncLogs = <<>>
        THEN logOut'.row = NoLogRow
        ELSE logOut'.row = syncLogs[Len(syncLogs)]

C25_LastFinishedLog == [][C25_LastFinishedLogStep]_vars

\* C26: every row of sync_logs has status "success" or "failed", and its
\* error message is empty exactly when the status is "success".
C26_LogStatus ==
    \A i \in DOMAIN syncLogs :
        /\ syncLogs[i].log.status \in {"success", "failed"}
        /\ syncLogs[i].log.error_message = <<>> <=> syncLogs[i].log.status = "success"

\* The table holds the row of a run that succeeded and the row of a run
\* that failed.
C26_Witness ==
    \E i, j \in DOMAIN syncLogs :
        /\ syncLogs[i].log.status = "success" /\ syncLogs[i].log.error_message = <<>>
        /\ syncLogs[j].log.status = "failed" /\ syncLogs[j].log.error_message # <<>>

\* The keys of the image objects of a stored row that a removal is due for:
\* of poster and backdrop, each path that contains "http" and the bucket
\* name gives its last "/" segment cut at the first "?".
DueKeys(row) ==
    {ImageFilename(path) :
        path \in {q \in {row.poster_path, row.backdrop_path} :
                    Contains(q, <<104, 116, 116, 112>>) /\ Contains(q, bucket)}}

\* C27: DeleteMovie on an existing movie removes the row even when the
\* removal of its poster or backdrop object fails: the request fails only
\* with a store error and the row is gone exactly when it is answered 200.
\* A removal is attempted only with the keys due for the stored paths (path
\* contains "http" and the bucket name; key is the last "/" segment cut at
\* the first "?"), with all of them when the request succeeds, and the
\* bucket loses exactly the objects whose removal succeeded.
C27_DeleteIgnoresImageFailureStep ==
    (/\ ~httpIn.called
     /\ httpIn'.called
     /\ httpIn'.handler = "delete"
     /\ ~ParseUintFails(httpIn'.id)
     /\ FindByID(movies, httpIn'.id.val) # Nil)
    => LET id == httpIn'.id.val
           before == FindByID(movies, id)
           attempted == {e.key : e \in imageLog'}
           succeeded == {e.key : e \in {x \in imageLog' : x.ok}}
       IN  /\ httpOut'.err \in {NoError, StoreError}
           /\ httpOut'.status = StatusOK <=> FindByID(movies', id) = Nil
           /\ httpOut'.status # StatusOK => movies' = movies
           /\ attempted \subseteq DueKeys(before)
           /\ httpOut'.status = StatusOK => attempted = DueKeys(before)
           /\ objects' = objects \ succeeded

C27_DeleteIgnoresImageFailure == [][C27_DeleteIgnoresImageFailureStep]_vars

\* A delete answered 200 whose row is gone although the removal of its
\* image "k" failed: the object is still in the bucket.
C27_Witness ==
    /\ httpIn.called
    /\ httpIn.handler = "delete"
    /\ httpOut.status = StatusOK
    /\ FindByID(movies, httpIn.id.val) = Nil
    /\ [key |-> <<107>>, ok |-> FALSE] \in imageLog
    /\ <<107>> \in objects

\* C28: when UpdateMovie or DeleteMovie on an existing movie is answered
\* with an error, the row is still stored and every poster or backdrop
\* object it refers to that was in the bucket before the request is still
\* there.
C28_NoDanglingImageStep ==
    (/\ ~httpIn.called
     /\ httpIn'.called
     /\ httpIn'.handler \in {"update", "delete"}
     /\ ~ParseUintFails(httpIn'.id)
     /\ FindByID(movies, httpIn'.id.val) # Nil
     /\ httpOut'.status # StatusOK)
    => LET after == FindByID(movies', httpIn'.id.val)
       IN  /\ after # Nil
           /\ (DueKeys(after) \cap objects) \subseteq objects'

C28_NoDanglingImage == [][C28_NoDanglingImageStep]_vars

\* C29: for a list request with page >= 1 and limit >= 1 the metadata has
\* total_pages >= 1, and has_next holds exactly when page * limit < total,
\* i.e. when a matching movie lies beyond the page.
C29_PaginationMeta ==
    (/\ listIn.called
     /\ listOut.status = StatusOK
     /\ listIn.page >= 1
     /\ listIn.limit >= 1
     /\ listOut.meta.total >= 0)
    => /\ listOut.meta.total_pages >= 1
       /\ listOut.meta.has_next <=> listIn.page * listIn.limit < listOut.meta.total

\* C30: every stored movie has a non-empty title.
C30_TitlesNonEmpty ==
    \A m \in movies : m.title # ""

====
